---- MODULE Spec2Model ----
(***************************************************************************)
(* Model of the lab-provisioning pipeline of esxi-lab-provider:            *)
(*   - service.WireGuardService (key rotation, peer registration with the  *)
(*     OPNsense gateway including the read-after-write verification),      *)
(*   - service.VMwareService.RestoreVMsWithPasswordRotation,               *)
(*   - orchestrator.Orchestrator.Run / RestoreVMs.                         *)
(* Two harnesses share the state: "service" drives a WireGuardService      *)
(* directly (as the package's unit tests do), "orchestrator" executes one  *)
(* Orchestrator.Run.                                                       *)
(***************************************************************************)
EXTENDS Integers, Sequences, FiniteSets, TLC

\* ------------------------------------------------------------------ bounds
MaxEvents == 2          \* longest list of active calendar events
MaxIndex == 2           \* largest userIndex handed to the service directly
MaxSummary == 4         \* longest enumerated event summary, in characters
MaxNodes == 3           \* most snapshots in an enumerated forest
MaxKeyCalls == 3        \* longest sequence of calls on one WireGuardService
MaxAddress == 4         \* longest enumerated tunnel address, in characters
MaxCount == 2           \* largest booking count handed to the selection directly
MaxSelections == 2      \* selections run on the same inventory, mapping and count

\* ---------------------------------------------------------------- strings
\* Tunnel addresses are sequences of one-character strings, so that
\* normalizeTunnelAddress is computed the way the code computes it.
IsSpace(c) == c = " "

RECURSIVE TrimLeft(_)
TrimLeft(s) == IF s # <<>> /\ IsSpace(Head(s)) THEN TrimLeft(Tail(s)) ELSE s

RECURSIVE TrimRight(_)
TrimRight(s) ==
    IF s # <<>> /\ IsSpace(s[Len(s)]) THEN TrimRight(SubSeq(s, 1, Len(s) - 1)) ELSE s

TrimSpace(s) == TrimRight(TrimLeft(s))

\* strings.Index: position (0-based) of the first c in s, -1 when absent
Index(s, c) ==
    IF \E i \in 1..Len(s) : s[i] = c
    THEN (CHOOSE i \in 1..Len(s) : s[i] = c /\ \A j \in 1..(i - 1) : s[j] # c) - 1
    ELSE -1

normalizeTunnelAddress(addr) ==
    LET a == TrimSpace(addr)
        idx == Index(a, "/")
    IN  IF idx # -1 THEN SubSeq(a, 1, idx) ELSE a

\* ------------------------------------------------------------- value pools
Users == {"alice", "bob"}

Addr1 == <<"1">>
Addr1Cidr == <<"1", "/", "3", "2">>
Addr2 == <<"2">>
Addr2Cidr == <<"2", "/", "3", "2">>

PrivKeys == {"priv1", "priv2"}

\* curve25519.ScalarBaseMult: an injective map from private to public keys
PublicKeyOf(priv) == IF priv = "priv1" THEN "pub1" ELSE "pub2"

PubKeys == {PublicKeyOf(p) : p \in PrivKeys}

\* ------------------------------------------------------- the VPN gateway
\* A PeerRow of the gateway's search response.
PeerRow(uuid, name, pubkey, addr, servers) ==
    [UUID |-> uuid, Name |-> name, PubKey |-> pubkey,
     TunnelAddress |-> addr, Servers |-> servers]

\* The first slot as Terraform may have provisioned it.
Slot1Rows ==
    {PeerRow("uuid-1", n, "old", a, s) :
        n \in {"", "peer-1"}, a \in {Addr1, Addr1Cidr}, s \in {"", "srv1"}}

Slot2Row == PeerRow("uuid-2", "peer-2", "old", Addr2Cidr, "srv1")

RowsPool ==
    {<<>>, <<Slot2Row>>} \cup {<<r>> : r \in Slot1Rows}
        \cup {<<r, Slot2Row>> : r \in Slot1Rows}

\* What the transport does to one search request.
SearchFaults == {"ok", "transport_error"}

\* What the gateway does with one set_client request:
\*   applied       stored, reconfigured, success reported
\*   rejected      not stored, error reported (transport, status, validation)
\*   apply_failed  stored, the reconfigure request failed, error reported
\*   dropped       success reported, nothing stored
\*   corrupted     success reported, another key stored
\*   deleted       success reported, the peer is gone before the re-query
UpdateOutcomes ==
    {"applied", "rejected", "apply_failed", "dropped", "corrupted", "deleted"}

GatewayEnv == [s1 : SearchFaults, upd : UpdateOutcomes, s2 : SearchFaults]

\* rows scan of OPNsenseClient.SearchPeerByTunnelAddress: the first row whose
\* normalized tunnel address equals the normalized target; <<>> is nil
FirstMatch(rs, tunnelAddress) ==
    LET normalizedTarget == normalizeTunnelAddress(tunnelAddress)
        hits == {i \in 1..Len(rs) :
                    normalizeTunnelAddress(rs[i].TunnelAddress) = normalizedTarget}
    IN  IF hits = {} THEN <<>>
        ELSE <<rs[CHOOSE i \in hits : \A j \in hits : i <= j]>>

SearchPeerByTunnelAddress(rs, tunnelAddress, fault) ==
    IF fault = "transport_error"
    THEN [err |-> TRUE, peer |-> <<>>]
    ELSE [err |-> FALSE, peer |-> FirstMatch(rs, tunnelAddress)]

\* the set_client payload of OPNsenseClient.UpdatePeer, stored under uuid
StoreClient(rs, uuid, name, publicKey, tunnelAddress, servers) ==
    [i \in 1..Len(rs) |->
        IF rs[i].UUID = uuid
        THEN PeerRow(uuid, name, publicKey, tunnelAddress, servers)
        ELSE rs[i]]

RemoveClient(rs, uuid) == SelectSeq(rs, LAMBDA r : r.UUID # uuid)

UpdatePeer(rs, uuid, name, publicKey, tunnelAddress, servers, outcome) ==
    CASE outcome = "applied" ->
            [err |-> FALSE,
             rows |-> StoreClient(rs, uuid, name, publicKey, tunnelAddress, servers)]
      [] outcome = "apply_failed" ->
            [err |-> TRUE,
             rows |-> StoreClient(rs, uuid, name, publicKey, tunnelAddress, servers)]
      [] outcome = "rejected" -> [err |-> TRUE, rows |-> rs]
      [] outcome = "dropped" -> [err |-> FALSE, rows |-> rs]
      [] outcome = "corrupted" ->
            [err |-> FALSE,
             rows |-> StoreClient(rs, uuid, name, "wrong", tunnelAddress, servers)]
      [] OTHER -> [err |-> FALSE, rows |-> RemoveClient(rs, uuid)]

\* ------------------------------------------ gateway operations of one call
SearchOp(tunnelAddress, r) ==
    [op |-> "search", addr |-> tunnelAddress, err |-> r.err, peer |-> r.peer,
     args |-> <<>>]

UpdateOp(uuid, name, publicKey, tunnelAddress, servers, err) ==
    [op |-> "update", addr |-> tunnelAddress, err |-> err, peer |-> <<>>,
     args |-> <<PeerRow(uuid, name, publicKey, tunnelAddress, servers)>>]

CreateOp(name, publicKey, tunnelAddress) ==
    [op |-> "create", addr |-> tunnelAddress, err |-> FALSE, peer |-> <<>>,
     args |-> <<PeerRow("", name, publicKey, tunnelAddress, "")>>]

Ret(res, rs, ops) == [res |-> res, rows |-> rs, ops |-> ops]

\* ------------------------------ WireGuardService.RegisterPeerWithOPNsense
ErrNoClient == "OPNsense client not configured"
ErrInvalidIndex == "invalid user index"
ErrSearch == "failed to search for existing peer"
ErrUpdate == "failed to update peer"
ErrVerify == "failed to verify peer update"
ErrDisappeared == "peer disappeared after update"
ErrMismatch == "peer key mismatch after update"
ErrNoPeer == "no existing peer found"

RegisterErrors ==
    {ErrNoClient, ErrInvalidIndex, ErrSearch, ErrUpdate, ErrVerify,
     ErrDisappeared, ErrMismatch, ErrNoPeer}

\* RegisterPrecheck with the client looked at before the feature flag
RegisterPrecheckClientFirst(cfg, client, userIndex) ==
    IF ~client THEN ErrNoClient
    ELSE IF ~cfg.AutoRegisterPeers THEN "nil"
    ELSE IF userIndex < 0 \/ userIndex >= Len(cfg.ClientAddresses) THEN ErrInvalidIndex
    ELSE "proceed"

\* the early returns: "nil", an error, or "proceed"
RegisterPrecheck(cfg, client, userIndex) ==
    IF ~cfg.AutoRegisterPeers THEN "nil"
    ELSE IF ~client THEN ErrNoClient
    ELSE IF userIndex < 0 \/ userIndex >= Len(cfg.ClientAddresses) THEN ErrInvalidIndex
    ELSE "proceed"

\* the name sent with the update
PeerName(existing, username) ==
    IF existing.Name = "" THEN username ELSE existing.Name

\* UpdateArgs with the servers field left out of the request
UpdateArgsNoServers(existing, username, publicKey, tunnelAddress) ==
    PeerRow(existing.UUID, PeerName(existing, username), publicKey, tunnelAddress, "")

\* the arguments of client.UpdatePeer
UpdateArgs(existing, username, publicKey, tunnelAddress) ==
    PeerRow(existing.UUID, PeerName(existing, username), publicKey, tunnelAddress,
            existing.Servers)

\* VerifyUpdate that only requires the peer to exist
VerifyUpdateNoKeyCheck(updated, publicKey) ==
    IF updated.err THEN ErrVerify
    ELSE IF updated.peer = <<>> THEN ErrDisappeared
    ELSE "nil"

\* VerifyUpdate that reports a missing peer as a failed request
VerifyUpdateCollapsed(updated, publicKey) ==
    IF updated.err \/ updated.peer = <<>> THEN ErrVerify
    ELSE IF updated.peer[1].PubKey # publicKey THEN ErrMismatch
    ELSE "nil"

\* the verification of the re-query
VerifyUpdate(updated, publicKey) ==
    IF updated.err THEN ErrVerify
    ELSE IF updated.peer = <<>> THEN ErrDisappeared
    ELSE IF updated.peer[1].PubKey # publicKey THEN ErrMismatch
    ELSE "nil"

\* RegisterNoPeer that creates the missing peer
RegisterNoPeerCreates(rs, username, publicKey, tunnelAddress, ops) ==
    Ret("nil", Append(rs, PeerRow("uuid-new", username, publicKey, tunnelAddress, "")),
        Append(ops, CreateOp(username, publicKey, tunnelAddress)))

\* the branch taken when the search finds no peer
RegisterNoPeer(rs, username, publicKey, tunnelAddress, ops) ==
    Ret(ErrNoPeer, rs, ops)

\* the branch taken when the search finds a peer
RegisterExisting(rs, existing, username, publicKey, tunnelAddress, ops, env) ==
    LET a == UpdateArgs(existing, username, publicKey, tunnelAddress)
        u == UpdatePeer(rs, a.UUID, a.Name, a.PubKey, a.TunnelAddress, a.Servers,
                        env.upd)
        ops2 == Append(ops, UpdateOp(a.UUID, a.Name, a.PubKey, a.TunnelAddress,
                                     a.Servers, u.err))
    IN  IF u.err THEN Ret(ErrUpdate, u.rows, ops2)
        ELSE LET updated == SearchPeerByTunnelAddress(u.rows, tunnelAddress, env.s2)
             IN  Ret(VerifyUpdate(updated, publicKey), u.rows,
                     Append(ops2, SearchOp(tunnelAddress, updated)))

\* SearchExisting that searches once more after a failed request
SearchExistingRetry(rs, tunnelAddress, env) ==
    LET r1 == SearchPeerByTunnelAddress(rs, tunnelAddress, env.s1)
        r2 == SearchPeerByTunnelAddress(rs, tunnelAddress, "ok")
    IN  IF r1.err
        THEN [r |-> r2, ops |-> <<SearchOp(tunnelAddress, r1), SearchOp(tunnelAddress, r2)>>]
        ELSE [r |-> r1, ops |-> <<SearchOp(tunnelAddress, r1)>>]

\* the first search of the call
SearchExisting(rs, tunnelAddress, env) ==
    LET r == SearchPeerByTunnelAddress(rs, tunnelAddress, env.s1)
    IN  [r |-> r, ops |-> <<SearchOp(tunnelAddress, r)>>]

RegisterPeerWithOPNsense(cfg, client, rs, username, publicKey, userIndex, env) ==
    LET pre == RegisterPrecheck(cfg, client, userIndex)
    IN  IF pre # "proceed" THEN Ret(pre, rs, <<>>)
        ELSE LET tunnelAddress == cfg.ClientAddresses[userIndex + 1]
                 s == SearchExisting(rs, tunnelAddress, env)
             IN  IF s.r.err THEN Ret(ErrSearch, rs, s.ops)
                 ELSE IF s.r.peer # <<>>
                 THEN RegisterExisting(rs, s.r.peer[1], username, publicKey,
                                       tunnelAddress, s.ops, env)
                 ELSE RegisterNoPeer(rs, username, publicKey, tunnelAddress, s.ops)

\* -------------------------------------- OPNsenseClient: mutation responses
\* A response is [StatusCode, Body]; a body is [readable, json, fields]: whether
\* io.ReadAll succeeds, whether the text is a JSON object, and that object's
\* fields as a function from key to value.
Fields(keys, result, validations) ==
    [k \in keys |-> IF k = "result" THEN result
                    ELSE IF k = "validations" THEN validations ELSE "abc-123"]

\* json.Unmarshal into mutationResponse: a field that is absent keeps its
\* zero value
UnmarshalMutation(body) ==
    IF ~body.json THEN [err |-> TRUE, Result |-> "", Validations |-> {}]
    ELSE [err |-> FALSE,
          Result |-> IF "result" \in DOMAIN body.fields
                     THEN body.fields["result"] ELSE "",
          Validations |-> IF "validations" \in DOMAIN body.fields
                          THEN body.fields["validations"] ELSE {}]

ErrReadBody == "failed to read response body"
ErrStatus == "OPNsense returned status"
ErrValidation == "OPNsense validation errors"
ErrResult == "OPNsense returned unexpected result"

\* a check that looks at the status code only
checkMutationResponseStatusOnly(resp) ==
    IF resp.StatusCode # 200 /\ resp.StatusCode # 201 THEN ErrStatus ELSE "nil"

\* checkMutationResponse
checkMutationResponse(resp) ==
    IF ~resp.Body.readable THEN ErrReadBody
    ELSE IF resp.StatusCode # 200 /\ resp.StatusCode # 201 THEN ErrStatus
    ELSE LET result == UnmarshalMutation(resp.Body)
         IN  IF result.err THEN "nil"
             ELSE IF Cardinality(result.Validations) > 0 THEN ErrValidation
             ELSE IF result.Result # "saved" /\ result.Result # "" THEN ErrResult
             ELSE "nil"

\* applyChanges: the reconfigure request; env.apply is what the transport
\* did with it and the status code of the response
applyChanges(env) ==
    [err |-> IF env.apply.do = "transport_error" THEN "failed to reconfigure"
             ELSE IF env.apply.StatusCode # 200 THEN "reconfigure returned status"
             ELSE "nil",
     requests |-> <<"reconfigure">>]

\* a mutation that sends the reconfigure request whatever was answered
PeerMutationApplyAlways(endpoint, env) ==
    LET applied == applyChanges(env)
    IN  IF env.do = "transport_error"
        THEN [err |-> "failed to send request", requests |-> <<endpoint>> \o applied.requests]
        ELSE IF checkMutationResponse(env.resp) # "nil"
        THEN [err |-> checkMutationResponse(env.resp),
              requests |-> <<endpoint>> \o applied.requests]
        ELSE [err |-> applied.err, requests |-> <<endpoint>> \o applied.requests]

\* UpdatePeer (endpoint set_client) and CreatePeer (endpoint add_client) as
\* requests: the error returned and the requests sent, in order
PeerMutation(endpoint, env) ==
    IF env.do = "transport_error"
    THEN [err |-> IF endpoint = "set_client" THEN "failed to update peer"
                  ELSE "failed to send request",
          requests |-> <<endpoint>>]
    ELSE IF checkMutationResponse(env.resp) # "nil"
    THEN [err |-> checkMutationResponse(env.resp), requests |-> <<endpoint>>]
    ELSE LET applied == applyChanges(env)
         IN  [err |-> applied.err, requests |-> <<endpoint>> \o applied.requests]

\* ---------------------------------------------- WireGuardService, the rest
EmptyMap == [u \in {} |-> ""]

Put(m, k, v) == [x \in DOMAIN m \cup {k} |-> IF x = k THEN v ELSE m[x]]

\* GenerateKeyPair: rand.Read may fail; otherwise a random private key and
\* its public key
KeyDraws == {[err |-> TRUE, priv |-> ""]} \cup {[err |-> FALSE, priv |-> p] : p \in PrivKeys}

\* RotateUserKey that returns the pair without keeping the private key
RotateUserKeyNoStore(keys, username, draw) ==
    IF draw.err THEN [err |-> TRUE, keys |-> keys, pub |-> ""]
    ELSE [err |-> FALSE, keys |-> keys, pub |-> PublicKeyOf(draw.priv)]

\* RotateUserKey that keeps the key a user already has
RotateUserKeyKeepsFirst(keys, username, draw) ==
    IF draw.err THEN [err |-> TRUE, keys |-> keys, pub |-> ""]
    ELSE [err |-> FALSE,
          keys |-> IF username \in DOMAIN keys THEN keys
                   ELSE Put(keys, username, draw.priv),
          pub |-> PublicKeyOf(draw.priv)]

\* RotateUserKey: the new key map and the returned public key
RotateUserKey(keys, username, draw) ==
    IF draw.err THEN [err |-> TRUE, keys |-> keys, pub |-> ""]
    ELSE [err |-> FALSE, keys |-> Put(keys, username, draw.priv),
          pub |-> PublicKeyOf(draw.priv)]

\* strings.Join(elems, sep)
RECURSIVE Join(_, _)
Join(elems, sep) ==
    IF Len(elems) = 0 THEN <<>>
    ELSE IF Len(elems) = 1 THEN <<elems[1]>>
    ELSE <<elems[1], sep>> \o Join(Tail(elems), sep)

\* a line that is written whatever the value
OptionalLineAlways(written, value) == <<value>>

\* a line written under a condition
OptionalLine(written, value) == IF written THEN <<value>> ELSE <<>>

\* a rendering that falls back to the last configured address when the
\* index is past the configured addresses
GenerateClientConfigClamped(cfg, keys, username, userIndex) ==
    LET idx == IF userIndex >= Len(cfg.ClientAddresses)
               THEN Len(cfg.ClientAddresses) - 1 ELSE userIndex
    IN  IF ~cfg.Enabled THEN [err |-> TRUE, conf |-> <<>>]
        ELSE IF idx < 0 THEN [err |-> TRUE, conf |-> <<>>]
        ELSE IF username \notin DOMAIN keys THEN [err |-> TRUE, conf |-> <<>>]
        ELSE [err |-> FALSE,
              conf |-> <<[PrivateKey |-> keys[username],
                          Address |-> cfg.ClientAddresses[idx + 1],
                          MTU |-> OptionalLine(cfg.MTU > 0, cfg.MTU),
                          PublicKey |-> cfg.ServerPublicKey,
                          Endpoint |-> cfg.ServerEndpoint,
                          AllowedIPs |-> OptionalLine(Len(cfg.AllowedIPs) > 0,
                                                      Join(cfg.AllowedIPs, ", ")),
                          PersistentKeepalive |-> OptionalLine(cfg.Keepalive > 0,
                                                               cfg.Keepalive)]>>]

\* GenerateClientConfig: the rendered profile, one field per line written; a
\* line that is not written is <<>>, a written one carries its value
GenerateClientConfig(cfg, keys, username, userIndex) ==
    IF ~cfg.Enabled THEN [err |-> TRUE, conf |-> <<>>]
    ELSE IF userIndex < 0 \/ userIndex >= Len(cfg.ClientAddresses)
    THEN [err |-> TRUE, conf |-> <<>>]
    ELSE IF username \notin DOMAIN keys THEN [err |-> TRUE, conf |-> <<>>]
    ELSE [err |-> FALSE,
          conf |-> <<[PrivateKey |-> keys[username],
                      Address |-> cfg.ClientAddresses[userIndex + 1],
                      MTU |-> OptionalLine(cfg.MTU > 0, cfg.MTU),
                      PublicKey |-> cfg.ServerPublicKey,
                      Endpoint |-> cfg.ServerEndpoint,
                      AllowedIPs |-> OptionalLine(Len(cfg.AllowedIPs) > 0,
                                                  Join(cfg.AllowedIPs, ", ")),
                      PersistentKeepalive |-> OptionalLine(cfg.Keepalive > 0,
                                                           cfg.Keepalive)]>>]

\* ------------------------------------------------- VMwareService.Close
\* client is <<>> for a nil client and <<session>> for a connection whose
\* session is open (TRUE) or not; the call returns, or panics on the nil
\* dereference of s.client.Logout
Close(client) ==
    IF client = <<>>
    THEN [fault |-> "nil pointer dereference", err |-> FALSE, logout |-> FALSE,
          client |-> client]
    ELSE [fault |-> "none", err |-> FALSE, logout |-> FALSE, client |-> client]

\* ------------------------------------------- VMwareService: snapshots
\* A snapshot forest is a sequence of VirtualMachineSnapshotTree nodes
\* [Name, Snapshot, CreateTime, ChildSnapshotList]; a result is <<>> for nil
\* and <<ref>> for a reference.

\* a search that looks at the roots only
RECURSIVE findSnapshotInRoots(_, _)
findSnapshotInRoots(tree, name) ==
    IF tree = <<>> THEN <<>>
    ELSE IF Head(tree).Name = name THEN <<Head(tree).Snapshot>>
    ELSE findSnapshotInRoots(Tail(tree), name)

\* findSnapshotInTree
RECURSIVE findSnapshotInTree(_, _)
findSnapshotInTree(tree, name) ==
    IF tree = <<>> THEN <<>>
    ELSE LET snapshot == Head(tree)
         IN  IF snapshot.Name = name THEN <<snapshot.Snapshot>>
             ELSE LET ref == findSnapshotInTree(snapshot.ChildSnapshotList, name)
                  IN  IF ref # <<>> THEN ref
                      ELSE findSnapshotInTree(Tail(tree), name)

\* the loop of findLatestSnapshotInTree: the first element with the greatest
\* CreateTime (After is strict)
LatestIndex(tree) ==
    CHOOSE k \in 1..Len(tree) :
        /\ \A j \in 1..Len(tree) : tree[j].CreateTime <= tree[k].CreateTime
        /\ \A j \in 1..(k - 1) : tree[j].CreateTime < tree[k].CreateTime

\* all nodes of a forest
RECURSIVE AllNodes(_)
AllNodes(tree) ==
    UNION {{tree[k]} \cup AllNodes(tree[k].ChildSnapshotList) : k \in 1..Len(tree)}

\* a search for the node with the greatest CreateTime of the whole forest
findLatestSnapshotAnywhere(tree) ==
    IF Len(tree) = 0 THEN <<>>
    ELSE LET nodes == AllNodes(tree)
             n == CHOOSE x \in nodes : \A y \in nodes : y.CreateTime <= x.CreateTime
         IN  <<n.Snapshot>>

\* findLatestSnapshotInTree
RECURSIVE findLatestSnapshotInTree(_)
findLatestSnapshotInTree(tree) ==
    IF Len(tree) = 0 THEN <<>>
    ELSE LET latest == tree[LatestIndex(tree)]
             latestChild == findLatestSnapshotInTree(latest.ChildSnapshotList)
         IN  IF latestChild # <<>> THEN latestChild ELSE <<latest.Snapshot>>

\* findSnapshot / findLatestSnapshot: the property read, the empty-list test
\* and the tree search
findSnapshot(env, name) ==
    IF ~env.props THEN [err |-> TRUE, ref |-> <<>>]
    ELSE IF Len(env.forest) = 0 THEN [err |-> TRUE, ref |-> <<>>]
    ELSE LET ref == findSnapshotInTree(env.forest, name)
         IN  [err |-> ref = <<>>, ref |-> ref]

findLatestSnapshot(env) ==
    IF ~env.props THEN [err |-> TRUE, ref |-> <<>>]
    ELSE IF Len(env.forest) = 0 THEN [err |-> TRUE, ref |-> <<>>]
    ELSE LET latest == findLatestSnapshotInTree(env.forest)
         IN  [err |-> latest = <<>>, ref |-> latest]

VMOp(op, ref, outcome) == [op |-> op, ref |-> ref, outcome |-> outcome]

\* revert and power-on where the power-on does not wait for the revert's result
RevertThenPowerOnRegardless(ref, env) ==
    [err |-> IF env.revert = "call fails" THEN "failed to revert"
             ELSE IF env.revert = "task fails" THEN "revert task failed"
             ELSE IF env.powerOn = "call fails" THEN "failed to power on"
             ELSE IF env.powerOn = "task fails" THEN "power on task failed"
             ELSE "nil",
     ops |-> <<VMOp("RevertToSnapshot", ref, env.revert),
               VMOp("PowerOn", <<>>, env.powerOn)>>]

\* restoreVM from RevertToSnapshot on
RevertThenPowerOn(ref, env) ==
    LET revert == VMOp("RevertToSnapshot", ref, env.revert)
        powerOn == VMOp("PowerOn", <<>>, env.powerOn)
    IN  IF env.revert = "call fails"
        THEN [err |-> "failed to revert", ops |-> <<revert>>]
        ELSE IF env.revert = "task fails"
        THEN [err |-> "revert task failed", ops |-> <<revert>>]
        ELSE IF env.powerOn = "call fails"
        THEN [err |-> "failed to power on", ops |-> <<revert, powerOn>>]
        ELSE IF env.powerOn = "task fails"
        THEN [err |-> "power on task failed", ops |-> <<revert, powerOn>>]
        ELSE [err |-> "nil", ops |-> <<revert, powerOn>>]

\* restoreVM: the error returned and the operations issued on the machine
restoreVM(env, snapshotName) ==
    IF ~env.vm THEN [err |-> "VM not found", ops |-> <<>>]
    ELSE IF snapshotName = "" \/ snapshotName = "<latest>"
    THEN LET latest == findLatestSnapshot(env)
         IN  IF latest.err THEN [err |-> "no snapshots found", ops |-> <<>>]
             ELSE RevertThenPowerOn(latest.ref[1], env)
    ELSE LET found == findSnapshot(env, snapshotName)
         IN  IF found.err THEN [err |-> "snapshot not found", ops |-> <<>>]
             ELSE RevertThenPowerOn(found.ref[1], env)

\* ------------------------- VMwareService.RestoreVMsWithPasswordRotation
\* What the hypervisor does with one batch: the host lookup, each machine's
\* restore, each account update.
BatchEnv(n) == [host : BOOLEAN, restore : [1..n -> BOOLEAN], rotate : [1..n -> BOOLEAN]]

\* GeneratePassword(16): a fresh random value, named by the position it was
\* drawn at
NewPassword(i) == <<"pw", i>>

\* the batch loop recording a password also when the account update fails
RECURSIVE RestoreLoopKeepsFailed(_, _, _, _, _)
RestoreLoopKeepsFailed(i, vmNames, userNames, env, acc) ==
    IF i > Len(vmNames) THEN acc
    ELSE IF ~env.restore[i]
    THEN RestoreLoopKeepsFailed(i + 1, vmNames, userNames, env,
            [acc EXCEPT !.errors = Append(@, <<"failed to restore", vmNames[i]>>),
                        !.steps = Append(@, <<"restore", i>>)])
    ELSE IF i <= Len(userNames)
    THEN IF ~env.rotate[i]
         THEN RestoreLoopKeepsFailed(i + 1, vmNames, userNames, env,
                [acc EXCEPT !.errors = Append(@, <<"failed to rotate password for user",
                                                   userNames[i]>>),
                            !.passwords = Put(@, userNames[i], NewPassword(i)),
                            !.steps = @ \o <<(<<"restore", i>>), (<<"rotate", i>>)>>])
         ELSE RestoreLoopKeepsFailed(i + 1, vmNames, userNames, env,
                [acc EXCEPT !.passwords = Put(@, userNames[i], NewPassword(i)),
                            !.steps = @ \o <<(<<"restore", i>>), (<<"rotate", i>>)>>])
    ELSE RestoreLoopKeepsFailed(i + 1, vmNames, userNames, env,
            [acc EXCEPT !.steps = Append(@, <<"restore", i>>)])

\* the batch loop giving up at the first machine whose restore fails
RECURSIVE RestoreLoopStopOnFailure(_, _, _, _, _)
RestoreLoopStopOnFailure(i, vmNames, userNames, env, acc) ==
    IF i > Len(vmNames) THEN acc
    ELSE IF ~env.restore[i]
    THEN [acc EXCEPT !.errors = Append(@, <<"failed to restore", vmNames[i]>>),
                     !.steps = Append(@, <<"restore", i>>)]
    ELSE IF i <= Len(userNames)
    THEN IF ~env.rotate[i]
         THEN RestoreLoopStopOnFailure(i + 1, vmNames, userNames, env,
                [acc EXCEPT !.errors = Append(@, <<"failed to rotate password for user",
                                                   userNames[i]>>),
                            !.steps = @ \o <<(<<"restore", i>>), (<<"rotate", i>>)>>])
         ELSE RestoreLoopStopOnFailure(i + 1, vmNames, userNames, env,
                [acc EXCEPT !.passwords = Put(@, userNames[i], NewPassword(i)),
                            !.steps = @ \o <<(<<"restore", i>>), (<<"rotate", i>>)>>])
    ELSE RestoreLoopStopOnFailure(i + 1, vmNames, userNames, env,
            [acc EXCEPT !.steps = Append(@, <<"restore", i>>)])

RECURSIVE RestoreLoop(_, _, _, _, _)
RestoreLoop(i, vmNames, userNames, env, acc) ==
    IF i > Len(vmNames) THEN acc
    ELSE IF ~env.restore[i]
    THEN RestoreLoop(i + 1, vmNames, userNames, env,
            [acc EXCEPT !.errors = Append(@, <<"failed to restore", vmNames[i]>>),
                        !.steps = Append(@, <<"restore", i>>)])
    ELSE IF i <= Len(userNames)
    THEN IF ~env.rotate[i]
         THEN RestoreLoop(i + 1, vmNames, userNames, env,
                [acc EXCEPT !.errors = Append(@, <<"failed to rotate password for user",
                                                   userNames[i]>>),
                            !.steps = @ \o <<(<<"restore", i>>), (<<"rotate", i>>)>>])
         ELSE RestoreLoop(i + 1, vmNames, userNames, env,
                [acc EXCEPT !.passwords = Put(@, userNames[i], NewPassword(i)),
                            !.steps = @ \o <<(<<"restore", i>>), (<<"rotate", i>>)>>])
    ELSE RestoreLoop(i + 1, vmNames, userNames, env,
            [acc EXCEPT !.steps = Append(@, <<"restore", i>>)])

\* the batch in two phases: every restore first, the rotations afterwards
RestoreVMsTwoPhase(vmNames, userNames, env) ==
    IF ~env.host
    THEN [errors |-> <<(<<"failed to get ESXi host", "">>)>>, passwords |-> EmptyMap,
          steps |-> <<>>]
    ELSE LET r == RestoreLoop(1, vmNames, userNames, env,
                              [errors |-> <<>>, passwords |-> EmptyMap, steps |-> <<>>])
         IN  [r EXCEPT !.steps = SelectSeq(@, LAMBDA st : st[1] = "restore")
                                   \o SelectSeq(@, LAMBDA st : st[1] = "rotate")]

RestoreVMsWithPasswordRotation(vmNames, userNames, env) ==
    IF ~env.host
    THEN [errors |-> <<(<<"failed to get ESXi host", "">>)>>, passwords |-> EmptyMap,
          steps |-> <<>>]
    ELSE RestoreLoop(1, vmNames, userNames, env,
                     [errors |-> <<>>, passwords |-> EmptyMap, steps |-> <<>>])

\* ------------------------------------------------------------ Orchestrator
\* calendar instants are integers; the run is evaluated at instant Now
Now == 2

\* an extraction that starts after the first "(" of the summary
ExtractFromFirstOpen(summary) ==
    LET opens == {k \in 1..Len(summary) : summary[k] = "("}
        closes == {k \in 1..Len(summary) :
                      summary[k] = ")" /\ \E o \in opens : o < k}
    IN  IF closes = {} THEN [start |-> -1, end |-> -1]
        ELSE LET e == CHOOSE k \in closes : \A c \in closes : k <= c
                 o == CHOOSE k \in opens : \A x \in opens : k <= x
             IN  [start |-> o, end |-> e - 1]

\* ExtractEmailFromSummary over a summary of one-character strings
ExtractFrom(summary) ==
    LET opens == {k \in 1..Len(summary) : summary[k] = "("}
        \* the loop: start follows the last "(" seen before the first ")" that
        \* comes after some "("
        closes == {k \in 1..Len(summary) :
                      summary[k] = ")" /\ \E o \in opens : o < k}
    IN  IF closes = {} THEN [start |-> -1, end |-> -1]
        ELSE LET e == CHOOSE k \in closes : \A c \in closes : k <= c
                 o == CHOOSE k \in opens : k < e /\ \A x \in opens : x < e => x <= k
             IN  [start |-> o, end |-> e - 1]

ExtractEmailFromSummary(summary) ==
    LET r == ExtractFrom(summary)
    IN  IF r.start > 0 /\ r.end > r.start THEN SubSeq(summary, r.start + 1, r.end)
        ELSE <<>>

\* AttendeeEmail that also accepts the organizer
AttendeeEmailAnyRole(attendees) ==
    LET ok == {k \in 1..Len(attendees) : attendees[k].Email # <<>>}
    IN  IF ok = {} THEN <<>>
        ELSE attendees[CHOOSE k \in ok : \A x \in ok : k <= x].Email

\* the first attendee with an address who is not the organizer
AttendeeEmail(attendees) ==
    LET ok == {k \in 1..Len(attendees) :
                  attendees[k].Email # <<>> /\ ~attendees[k].Organizer}
    IN  IF ok = {} THEN <<>>
        ELSE attendees[CHOOSE k \in ok : \A x \in ok : k <= x].Email

EventEmail(event) ==
    LET email == AttendeeEmail(event.Attendees)
    IN  IF email = <<>> /\ event.Summary # <<>>
        THEN ExtractEmailFromSummary(event.Summary)
        ELSE email

\* RFC 3339 texts of the instants 1..4; the last one writes instant 2 with
\* a zone offset
TimeTexts ==
    << "2024-01-01T01:00:00Z", "2024-01-01T02:00:00Z", "2024-01-01T03:00:00Z",
       "2024-01-01T04:00:00Z" >>

OffsetText == "2024-01-01T03:00:00+01:00"

\* time.Parse(time.RFC3339, text): the instant, or an error
ParseRFC3339(text) ==
    IF \E k \in 1..Len(TimeTexts) : TimeTexts[k] = text
    THEN [err |-> FALSE, t |-> CHOOSE k \in 1..Len(TimeTexts) : TimeTexts[k] = text]
    ELSE IF text = OffsetText THEN [err |-> FALSE, t |-> 2]
    ELSE [err |-> TRUE, t |-> 0]

\* IsActive with a window that is closed at its end
IsActiveClosedEnd(event, now) ==
    /\ event.Start # <<>>
    /\ event.End # <<>>
    /\ event.Start[1].DateTime # ""
    /\ event.End[1].DateTime # ""
    /\ ~ParseRFC3339(event.Start[1].DateTime).err
    /\ ~ParseRFC3339(event.End[1].DateTime).err
    /\ ParseRFC3339(event.Start[1].DateTime).t <= now
    /\ ParseRFC3339(event.End[1].DateTime).t >= now

\* the tests of the loop body before the address is derived; Start and End
\* are <<>> when nil
IsActive(event, now) ==
    /\ event.Start # <<>>
    /\ event.End # <<>>
    /\ event.Start[1].DateTime # ""
    /\ event.End[1].DateTime # ""
    /\ ~ParseRFC3339(event.Start[1].DateTime).err
    /\ ~ParseRFC3339(event.End[1].DateTime).err
    /\ ParseRFC3339(event.Start[1].DateTime).t <= now
    /\ ParseRFC3339(event.End[1].DateTime).t > now

RECURSIVE FilterActiveEvents(_, _)
FilterActiveEvents(events, now) ==
    IF events = <<>> THEN <<>>
    ELSE LET rest == FilterActiveEvents(Tail(events), now)
             event == Head(events)
         IN  IF IsActive(event, now)
             THEN <<[Summary |-> event.Summary, Email |-> EventEmail(event)]>> \o rest
             ELSE rest

\* the strings of the pools in the order of Go's < on strings
Lexicographic == <<"", "alice", "bob", "carol">>

StringLess(x, y) ==
    \E j \in 1..Len(Lexicographic), k \in 1..Len(Lexicographic) :
        j < k /\ Lexicographic[j] = x /\ Lexicographic[k] = y

\* a sort that leaves the pairs in the order of the map iteration
SortPairsKeepOrder(ps) == ps

\* sort.Slice(pairs, func(i, j) { pairs[i].User < pairs[j].User }): the keys of
\* a map are distinct, so the sorted order is the one ascending order
RECURSIVE SortPairs(_)
SortPairs(ps) ==
    IF ps = <<>> THEN <<>>
    ELSE LET least == CHOOSE k \in 1..Len(ps) :
                         \A j \in 1..Len(ps) : ~StringLess(ps[j].User, ps[k].User)
         IN  <<ps[least]>> \o
             SortPairs([j \in 1..(Len(ps) - 1) |->
                           IF j < least THEN ps[j] ELSE ps[j + 1]])

\* the orders in which `range` may visit the keys of a map
MapOrders(m) ==
    {o \in [1..Cardinality(DOMAIN m) -> DOMAIN m] :
        \A j \in DOMAIN o, k \in DOMAIN o : o[j] = o[k] => j = k}

\* ESXiConfig.UserVMPairs: the pairs appended in the order of the map
\* iteration, then sorted by user
UserVMPairs(mappings, order) ==
    SortPairs([k \in 1..Len(order) |-> [User |-> order[k], VMs |-> mappings[order[k]]]])

\* BuildInventoryMap
BuildInventoryMap(vms) == {vms[k] : k \in 1..Len(vms)}

RECURSIVE ValidPairs(_, _)
ValidPairs(ps, inventoryVMs) ==
    IF ps = <<>> THEN <<>>
    ELSE LET p == Head(ps)
             validVMs == SelectSeq(p.VMs, LAMBDA vm : vm \in inventoryVMs)
             rest == ValidPairs(Tail(ps), inventoryVMs)
         IN  IF Len(validVMs) > 0
             THEN <<[User |-> p.User, VMs |-> validVMs]>> \o rest
             ELSE rest

\* a selection that skips the machines an earlier mention already selected
RECURSIVE ValidPairsOnce(_, _, _)
ValidPairsOnce(ps, inventoryVMs, seen) ==
    IF ps = <<>> THEN <<>>
    ELSE LET p == Head(ps)
             first == {j \in 1..Len(p.VMs) :
                          /\ p.VMs[j] \in inventoryVMs \ seen
                          /\ \A h \in 1..(j - 1) : p.VMs[h] # p.VMs[j]}
             validVMs == SelectSeq([j \in 1..Len(p.VMs) |-> <<j, p.VMs[j]>>],
                                   LAMBDA e : e[1] \in first)
             names == [j \in 1..Len(validVMs) |-> validVMs[j][2]]
             rest == ValidPairsOnce(Tail(ps), inventoryVMs,
                                    seen \cup {names[j] : j \in 1..Len(names)})
         IN  IF Len(names) > 0
             THEN <<[User |-> p.User, VMs |-> names]>> \o rest
             ELSE rest

SelectAllVMsOnce(vmList, mappings, order) ==
    IF Len(vmList) = 0 THEN <<>>
    ELSE ValidPairsOnce(UserVMPairs(mappings, order), BuildInventoryMap(vmList), {})

\* Orchestrator.SelectAllVMs
SelectAllVMs(vmList, mappings, order) ==
    IF Len(vmList) = 0 THEN <<>>
    ELSE ValidPairs(UserVMPairs(mappings, order), BuildInventoryMap(vmList))

\* SelectConfiguredVMs: the loop over the sorted pairs, left once the
\* pair just appended brings the list to eventCount
RECURSIVE ConfiguredLoop(_, _, _, _)
ConfiguredLoop(ps, inventoryVMs, eventCount, pairs) ==
    IF ps = <<>> THEN pairs
    ELSE LET p == Head(ps)
             validVMs == SelectSeq(p.VMs, LAMBDA vm : vm \in inventoryVMs)
             appended == Append(pairs, [User |-> p.User, VMs |-> validVMs])
         IN  IF Len(validVMs) > 0
             THEN IF Len(appended) >= eventCount THEN appended
                  ELSE ConfiguredLoop(Tail(ps), inventoryVMs, eventCount, appended)
             ELSE ConfiguredLoop(Tail(ps), inventoryVMs, eventCount, pairs)

SelectConfiguredVMs(inventoryVMs, eventCount, mappings, order) ==
    ConfiguredLoop(UserVMPairs(mappings, order), inventoryVMs, eventCount, <<>>)

\* a selection that fills up with inventory machines outside the mapping
SelectVMsToRestoreWithFallback(vmList, eventCount, mappings, order) ==
    LET pairs == SelectConfiguredVMs(BuildInventoryMap(vmList), eventCount,
                                     mappings, order)
        taken == UNION {{p.VMs[j] : j \in 1..Len(p.VMs)} :
                           p \in {pairs[k] : k \in 1..Len(pairs)}}
        free == SelectSeq(vmList, LAMBDA vm : vm \notin taken)
        need == IF eventCount > Len(pairs) THEN eventCount - Len(pairs) ELSE 0
        extra == [j \in 1..(IF need < Len(free) THEN need ELSE Len(free)) |->
                     [User |-> "", VMs |-> <<free[j]>>]]
    IN  [pairs |-> pairs \o extra, warn |-> Len(pairs \o extra) < eventCount]

\* SelectVMsToRestore: the pairs returned and whether "Insufficient VMs
\* available" is logged
SelectVMsToRestore(vmList, eventCount, mappings, order) ==
    LET pairs == SelectConfiguredVMs(BuildInventoryMap(vmList), eventCount,
                                     mappings, order)
    IN  [pairs |-> pairs, warn |-> Len(pairs) < eventCount]

\* RestoreVMs: the flat machine and user lists handed to the batch
RECURSIVE FlatVMs(_)
FlatVMs(ps) == IF ps = <<>> THEN <<>> ELSE Head(ps).VMs \o FlatVMs(Tail(ps))

RECURSIVE FlatUsers(_)
FlatUsers(ps) ==
    IF ps = <<>> THEN <<>>
    ELSE [j \in 1..Len(Head(ps).VMs) |-> IF j = 1 THEN Head(ps).User ELSE ""]
            \o FlatUsers(Tail(ps))

\* Run: where the run goes after each step
ErrInventory == "inventory fetch failed"
ErrCalendar == "calendar fetch failed"
ErrNoVMs == "no VMs available in inventory"
ErrPartial == "restore partially failed"

\* AfterInventory that goes on after a failed fetch
AfterInventoryContinue(err) == "FetchActiveEvents"

\* after FetchVMInventory: an error returns before the deferred Close is set up
AfterInventory(err) == IF err THEN "returned" ELSE "FetchActiveEvents"

\* AfterEvents that returns when no event is active
AfterEventsReturnIfNone(err, activeEvents) ==
    IF err \/ Len(activeEvents) = 0 THEN "Close" ELSE "SelectAllVMs"

\* after FetchActiveEvents: an error returns; an empty list is only logged
AfterEvents(err, activeEvents) == IF err THEN "Close" ELSE "SelectAllVMs"

\* NoPairsResult that never fails
NoPairsResultNil(activeEvents) == "nil"

\* the result of Run when SelectAllVMs yields no pair
NoPairsResult(activeEvents) == IF Len(activeEvents) > 0 THEN ErrNoVMs ELSE "nil"

\* AfterBatch that returns at once when a restore failed
AfterBatchReturnOnError(restoreErrors, passwords, wireGuard) ==
    IF Len(restoreErrors) > 0 THEN "Finish"
    ELSE IF DOMAIN passwords # {}
    THEN IF wireGuard THEN "WireGuard" ELSE "Email"
    ELSE "Finish"

\* RestoreVMs: the step that follows the restore batch
AfterBatch(restoreErrors, passwords, wireGuard) ==
    IF DOMAIN passwords # {}
    THEN IF wireGuard THEN "WireGuard" ELSE "Email"
    ELSE "Finish"

\* RestoreVMs: the counts of the "Restore partially failed" record and of the
\* error returned ("%d of %d VMs had errors")
PartialFailureReport(restoreErrors, vmsToRestore) ==
    [Failed |-> Len(restoreErrors),
     Total |-> Len(vmsToRestore),
     Restored |-> Len(vmsToRestore) - Len(restoreErrors)]

\* RestoreVMs: the value returned
RestoreResult(restoreErrors) == IF Len(restoreErrors) > 0 THEN ErrPartial ELSE "nil"

\* SendsEmail that does not look at the booking's address
SendsEmailAnyAddress(email, passwords, pairs, activeEvents, i) ==
    /\ email
    /\ pairs[i].User \in DOMAIN passwords
    /\ i <= Len(activeEvents)

\* RestoreVMs: whether the credentials email of pair i is sent
SendsEmail(email, passwords, pairs, activeEvents, i) ==
    /\ pairs[i].User \in DOMAIN passwords
    /\ email
    /\ i <= Len(activeEvents)
    /\ activeEvents[i].Email # <<>>

\* ----------------------------------------------------- environment pools
Attendee(email, organizer) == [Email |-> email, Organizer |-> organizer]

\* an EventDateTime with its dateTime text; an all-day entry has the text ""
When(text) == <<[DateTime |-> text]>>

At(t) == When(TimeTexts[t])

Event(start, end, attendees, summary) ==
    [Start |-> start, End |-> end, Attendees |-> attendees, Summary |-> summary]

\* The calendar, in start order: a booking with a participant, one whose
\* address is in the summary, one without any address, one that has ended.
EventPool ==
    << Event(At(1), At(3), <<Attendee(<<"o">>, TRUE), Attendee(<<"a">>, FALSE)>>, <<"A">>),
       Event(At(2), At(4), <<>>, <<"B", "(", "b", ")">>),
       Event(At(1), At(3), <<>>, <<"N">>),
       Event(At(1), At(2), <<Attendee(<<"p">>, FALSE)>>, <<"P">>) >>

\* Calendar entries for FilterActiveEvents alone: the window's two ends, a
\* nil start or end, an all-day entry, texts that do not parse, and the
\* ways an address is or is not found.
FilterPool ==
    << Event(At(1), At(3), <<Attendee(<<"o">>, TRUE), Attendee(<<"a">>, FALSE)>>, <<"A">>),
       Event(At(2), At(3), <<Attendee(<<"o">>, TRUE)>>, <<"B", "(", "b", ")">>),
       Event(At(1), At(2), <<Attendee(<<>>, FALSE), Attendee(<<"c">>, FALSE)>>, <<"C">>),
       Event(<<>>, At(3), <<Attendee(<<"a">>, FALSE)>>, <<"D">>),
       Event(At(1), <<>>, <<Attendee(<<"a">>, FALSE)>>, <<"E">>),
       Event(When(""), When(""), <<Attendee(<<"a">>, FALSE)>>, <<"F">>),
       Event(When("yesterday"), At(3), <<Attendee(<<"a">>, FALSE)>>, <<"G">>),
       Event(At(1), When("yesterday"), <<Attendee(<<"a">>, FALSE)>>, <<"H">>),
       Event(When(OffsetText), At(4), <<Attendee(<<"o">>, TRUE), Attendee(<<>>, FALSE)>>,
             <<"N">>),
       Event(At(1), At(4), <<Attendee(<<"a">>, FALSE), Attendee(<<"c">>, FALSE)>>,
             <<"K", "(", "k", ")">>) >>

\* the lists handed to FilterActiveEvents and the instants it is asked about
FilterInputs ==
    UNION {[1..n -> {FilterPool[k] : k \in 1..Len(FilterPool)}] : n \in 0..MaxEvents}

FilterInstants == 1..3

Pick(seq, S) == SelectSeq([k \in 1..Len(seq) |-> <<k, seq[k]>>], LAMBDA e : e[1] \in S)

SubSeqAt(seq, S) == LET p == Pick(seq, S) IN [k \in 1..Len(p) |-> p[k][2]]

CalendarResults ==
    {[err |-> TRUE, events |-> <<>>]} \cup
    {[err |-> FALSE, events |-> SubSeqAt(EventPool, S)] :
        S \in {T \in SUBSET (1..Len(EventPool)) : Cardinality(T) <= MaxEvents}}

InventoryPool ==
    { <<>>, <<"vm-extra">>, <<"vm-alice", "vm-bob">>, <<"vm-bob", "vm-bob2", "vm-extra">> }

InventoryResults ==
    {[err |-> TRUE, vms |-> <<>>]} \cup {[err |-> FALSE, vms |-> v] : v \in InventoryPool}

MappingPool ==
    { [u \in Users |-> IF u = "alice" THEN <<"vm-alice">> ELSE <<"vm-bob", "vm-bob2">>] }

\* The gateway during a run: all well, a stored key that is not the one
\* written, or a search that fails.
RunGatewayEnv ==
    { [s1 |-> "ok", upd |-> "applied", s2 |-> "ok"],
      [s1 |-> "ok", upd |-> "corrupted", s2 |-> "ok"],
      [s1 |-> "transport_error", upd |-> "applied", s2 |-> "ok"] }

\* The key drawn for the pair at index idx of a run: a failure of rand.Read
\* or a key no other pair draws.
RunKeyDraws(idx) ==
    {d \in KeyDraws : d.err \/ d.priv = (IF idx = 1 THEN "priv1" ELSE "priv2")}

\* summaries handed to ExtractEmailFromSummary: every text of up to
\* MaxSummary characters over a letter and the two parentheses, and the
\* nested form "J (f (b))"
RECURSIVE TextsOver(_, _)
TextsOver(alphabet, n) ==
    IF n = 0 THEN {<<>>}
    ELSE LET shorter == TextsOver(alphabet, n - 1)
         IN  shorter \cup {Append(t, c) : t \in shorter, c \in alphabet}

NestedSummary == <<"J", " ", "(", "f", " ", "(", "b", ")", ")">>

Summaries == TextsOver({"a", "(", ")"}, MaxSummary) \cup {NestedSummary}

\* inventories and mappings handed to the selection directly
SelectInventories ==
    { <<>>, <<"vm-extra">>, <<"vm-alice", "vm-extra">>,
      <<"vm-bob2", "vm-alice", "vm-bob">>, <<"vm-carol", "vm-bob", "vm-alice">> }

SelectMappings ==
    { EmptyMap,
      [u \in {"alice"} |-> <<"vm-alice">>],
      [u \in {"alice", "bob"} |-> IF u = "alice" THEN <<"vm-alice">> ELSE <<"vm-bob">>],
      [u \in {"alice", "bob", "carol"} |->
          IF u = "alice" THEN <<"vm-alice">>
          ELSE IF u = "bob" THEN <<"vm-bob", "vm-bob2">> ELSE <<"vm-carol">>],
      [u \in {"alice", "bob"} |->
          IF u = "alice" THEN <<"vm-alice">> ELSE <<"vm-alice", "vm-bob">>] }

\* snapshot forests of exactly n nodes; the node at position k below `path`
\* has the reference path \o <<k>>
SnapshotNames == {"base", "clean"}
SnapshotTimes == {1, 2, 3}

RECURSIVE ForestsAt(_, _, _)
ForestsAt(n, path, k) ==
    IF n = 0 THEN {<<>>}
    ELSE UNION {
           { <<[Name |-> name, Snapshot |-> Append(path, k), CreateTime |-> t,
                ChildSnapshotList |-> kids]>> \o rest :
               name \in SnapshotNames, t \in SnapshotTimes,
               kids \in ForestsAt(size - 1, Append(path, k), 1),
               rest \in ForestsAt(n - size, path, k + 1) } : size \in 1..n }

Forests == UNION {ForestsAt(n, <<>>, 1) : n \in 0..MaxNodes}

SearchedNames == SnapshotNames \cup {"gone"}

\* what one machine does during restoreVM: the lookup, the property read,
\* its snapshots, the revert, the power-on
Node(name, ref, t, kids) ==
    [Name |-> name, Snapshot |-> ref, CreateTime |-> t, ChildSnapshotList |-> kids]

RestoreForests ==
    { <<>>,
      <<Node("base", <<1>>, 1, <<>>)>>,
      <<Node("base", <<1>>, 3, <<Node("clean", <<1, 1>>, 1, <<>>)>>),
        Node("clean", <<2>>, 2, <<>>)>> }

TaskOutcomes == {"ok", "call fails", "task fails"}

RestoreEnv ==
    [vm : BOOLEAN, props : BOOLEAN, forest : RestoreForests,
     revert : TaskOutcomes, powerOn : TaskOutcomes]

SnapshotNameArgs == {"", "<latest>", "base", "clean", "gone"}

\* responses of the gateway to set_client / add_client
StatusCodes == {200, 201, 204, 400, 500}

ResponseBodies ==
    {[readable |-> FALSE, json |-> FALSE, fields |-> EmptyMap],
     [readable |-> TRUE, json |-> FALSE, fields |-> EmptyMap]}
    \cup {[readable |-> TRUE, json |-> TRUE, fields |-> Fields(keys, r, v)] :
             keys \in SUBSET {"result", "uuid", "validations"},
             r \in {"saved", "", "failed", "error"},
             v \in {{}, {"client.pubkey"}}}

Responses == [StatusCode : StatusCodes, Body : ResponseBodies]

\* what the transport and the gateway do with one mutation and its
\* reconfigure request
MutationEnv ==
    [do : {"ok", "transport_error"}, resp : Responses,
     apply : [do : {"ok", "transport_error"}, StatusCode : {200, 201, 500}]]

\* the reconfigure request was answered with status 200
ApplyOk(env) == env.apply.do = "ok" /\ env.apply.StatusCode = 200

Endpoints == {"set_client", "add_client"}

\* a service without a client and one with an open session
Clients == {<<>>, <<TRUE>>}

\* tunnel addresses as they may be written: digits, blanks and slashes
TunnelAddresses == TextsOver({"1", " ", "/"}, MaxAddress)

\* the addresses of the rows and of the target of a direct search
SearchAddresses ==
    { <<"1">>, <<"1", "/", "3">>, <<" ", "1", "/", "3", " ">>, <<"1", " ", "/", "3">>,
      <<"2", "/", "3">>, <<>> }

\* ------------------------------------------------------------------ state
VARIABLES
    harness,          \* "service", "orchestrator" or "filter"
    config,           \* WireGuardService.config (WireGuardConfig)
    opnsenseClient,   \* WireGuardService.opnsenseClient # nil
    privateKeys,      \* WireGuardService.privateKeys
    rows,             \* the gateway's peer table
    lastReg,          \* the RegisterPeerWithOPNsense calls made, the last one first
    userVMMappings,   \* FeatureCfg.ESXi.UserVMMappings
    hasWireGuard,     \* Orchestrator.WireGuard # nil
    hasEmail,         \* Orchestrator.Email # nil
    pc,               \* the step of Run to execute next
    vmList,           \* Run: vmList (machine names)
    activeEvents,     \* Run: activeEvents
    pairs,            \* Run: pairs
    restoreErrors,    \* RestoreVMs: restoreErrors
    passwords,        \* RestoreVMs: passwords
    restoreSteps,     \* the restore and rotation steps of the batch, in order
    wireguardConfigs, \* RestoreVMs: wireguardConfigs
    i,                \* RestoreVMs: the loop index (1-based)
    result,           \* the value Run returned, "none" before it returns
    calls,            \* the calls Run made on its collaborators, in order
    emails,           \* the emails handed to the sender, in order
    lastFilter,       \* the last FilterActiveEvents call, <<>> before any
    direct            \* the direct calls of single functions, in order

wgVars == <<config, opnsenseClient, privateKeys, rows, lastReg>>
cfgVars == <<harness, userVMMappings, hasWireGuard, hasEmail>>
runVars == <<pc, vmList, activeEvents, pairs, restoreErrors, passwords, restoreSteps,
             wireguardConfigs, i, result, calls, emails>>
vars == <<wgVars, cfgVars, runVars, lastFilter, direct>>

\* WireGuardConfig: the fields the service reads
WireGuardConfig(enabled, autoRegisterPeers, clientAddresses, mtu, allowedIPs, keepalive) ==
    [Enabled |-> enabled, AutoRegisterPeers |-> autoRegisterPeers,
     ClientAddresses |-> clientAddresses,
     ServerPublicKey |-> "server-pub", ServerEndpoint |-> "vpn.example.com:51820",
     MTU |-> mtu, AllowedIPs |-> allowedIPs, Keepalive |-> keepalive]

Networks == <<"10.0.0.0/24", "192.168.1.0/24">>

WireGuardConfigs ==
    {WireGuardConfig(e, a, c, 1420, Networks, 25) :
        e \in BOOLEAN, a \in BOOLEAN, c \in {<<Addr1Cidr>>, <<Addr1Cidr, Addr2Cidr>>}}

\* the configuration of a deployment without VPN
NoWireGuardConfig == WireGuardConfig(FALSE, FALSE, <<Addr1Cidr>>, 0, <<>>, 0)

\* configurations that differ in the optional lines of a profile
ProfileConfigs ==
    {WireGuardConfig(e, FALSE, <<Addr1Cidr, Addr2Cidr>>, mtu, ips, keepalive) :
        e \in BOOLEAN, mtu \in {-1, 0, 1420}, ips \in {<<>>, Networks},
        keepalive \in {0, 25}}

\* key maps of a service before any rotation and after one for alice
StoredKeys == {EmptyMap, Put(EmptyMap, "alice", "priv1")}

InitRun(start) ==
    /\ pc = start
    /\ vmList = <<>>
    /\ activeEvents = <<>>
    /\ pairs = <<>>
    /\ restoreErrors = <<>>
    /\ passwords = EmptyMap
    /\ restoreSteps = <<>>
    /\ wireguardConfigs = EmptyMap
    /\ i = 1
    /\ result = "none"
    /\ calls = <<>>
    /\ emails = <<>>
    /\ lastFilter = <<>>
    /\ direct = <<>>

\* NewWireGuardService: an empty key map
InitService ==
    /\ harness = "service"
    /\ config \in WireGuardConfigs
    /\ opnsenseClient \in BOOLEAN
    /\ privateKeys = EmptyMap
    /\ rows \in RowsPool
    /\ lastReg = <<>>
    /\ userVMMappings = EmptyMap
    /\ hasWireGuard = FALSE
    /\ hasEmail = FALSE
    /\ InitRun("idle")

\* an Orchestrator wired as main does, before Run
InitOrchestrator ==
    /\ harness = "orchestrator"
    /\ hasWireGuard \in BOOLEAN
    /\ hasEmail \in BOOLEAN
    /\ config \in IF hasWireGuard THEN WireGuardConfigs
                  ELSE {NoWireGuardConfig}
    /\ opnsenseClient = config.AutoRegisterPeers
    /\ privateKeys = EmptyMap
    /\ rows = <<PeerRow("uuid-1", "", "old", Addr1, "srv1"), Slot2Row>>
    /\ lastReg = <<>>
    /\ userVMMappings \in MappingPool
    /\ InitRun("Run")

\* FilterActiveEvents on its own
InitFilter ==
    /\ harness = "filter"
    /\ config = NoWireGuardConfig
    /\ opnsenseClient = FALSE
    /\ privateKeys = EmptyMap
    /\ rows = <<>>
    /\ lastReg = <<>>
    /\ userVMMappings = EmptyMap
    /\ hasWireGuard = FALSE
    /\ hasEmail = FALSE
    /\ InitRun("idle")

\* no service and no orchestrator: one function called on its own
InitDirect ==
    /\ harness = "direct"
    /\ config = NoWireGuardConfig
    /\ opnsenseClient = FALSE
    /\ privateKeys = EmptyMap
    /\ rows = <<>>
    /\ lastReg = <<>>
    /\ userVMMappings = EmptyMap
    /\ hasWireGuard = FALSE
    /\ hasEmail = FALSE
    /\ InitRun("idle")

\* a service on which GenerateClientConfig is called once
InitProfile ==
    /\ harness = "profile"
    /\ config \in ProfileConfigs
    /\ opnsenseClient = FALSE
    /\ privateKeys \in StoredKeys
    /\ rows = <<>>
    /\ lastReg = <<>>
    /\ userVMMappings = EmptyMap
    /\ hasWireGuard = FALSE
    /\ hasEmail = FALSE
    /\ InitRun("idle")

\* a fresh service on which keys are rotated and profiles generated
InitKeys ==
    /\ harness = "keys"
    /\ config = WireGuardConfig(TRUE, FALSE, <<Addr1Cidr, Addr2Cidr>>, 1420, Networks, 25)
    /\ opnsenseClient = FALSE
    /\ privateKeys = EmptyMap
    /\ rows = <<>>
    /\ lastReg = <<>>
    /\ userVMMappings = EmptyMap
    /\ hasWireGuard = FALSE
    /\ hasEmail = FALSE
    /\ InitRun("idle")

Init ==
    \/ InitService \/ InitOrchestrator \/ InitFilter \/ InitDirect
    \/ InitProfile \/ InitKeys

RegCall(username, publicKey, userIndex, r) ==
    [username |-> username, publicKey |-> publicKey, userIndex |-> userIndex,
     res |-> r.res, ops |-> r.ops, before |-> rows]

\* a direct call of RegisterPeerWithOPNsense on a fresh service
CallRegisterPeer ==
    /\ harness = "service"
    /\ lastReg = <<>>
    /\ \E username \in Users, publicKey \in PubKeys, userIndex \in (-1)..MaxIndex,
          env \in GatewayEnv :
            LET r == RegisterPeerWithOPNsense(config, opnsenseClient, rows, username,
                                              publicKey, userIndex, env)
            IN  /\ rows' = r.rows
                /\ lastReg' = <<RegCall(username, publicKey, userIndex, r)>>
    /\ UNCHANGED <<config, opnsenseClient, privateKeys, cfgVars, runVars,
                   lastFilter, direct>>

Call(op, idx, err) == [op |-> op, i |-> idx, err |-> err]

\* Run: FetchVMInventory
RunFetchVMInventory ==
    /\ pc = "Run"
    /\ \E inv \in InventoryResults :
        /\ calls' = Append(calls, Call("ListVMSnapshots", 0, inv.err))
        /\ vmList' = inv.vms
        /\ pc' = AfterInventory(inv.err)
        /\ result' = IF pc' = "returned" THEN ErrInventory ELSE result
    /\ UNCHANGED <<wgVars, cfgVars, activeEvents, pairs, restoreErrors, passwords,
                   restoreSteps, wireguardConfigs, i, emails,
                   lastFilter, direct>>

FilterCall(events, now, out) == [events |-> events, now |-> now, out |-> out]

\* a direct call of FilterActiveEvents
CallFilterActiveEvents ==
    /\ harness = "filter"
    /\ lastFilter = <<>>
    /\ \E events \in FilterInputs, now \in FilterInstants :
          /\ activeEvents' = FilterActiveEvents(events, now)
          /\ lastFilter' = <<FilterCall(events, now, activeEvents')>>
    /\ UNCHANGED <<wgVars, cfgVars, pc, vmList, pairs, restoreErrors, passwords,
                   restoreSteps, wireguardConfigs, i, result, calls, emails, direct>>

\* Run: FetchActiveEvents
RunFetchActiveEvents ==
    /\ pc = "FetchActiveEvents"
    /\ \E cal \in CalendarResults :
        /\ calls' = Append(calls, Call("ListEvents", 0, cal.err))
        /\ activeEvents' = FilterActiveEvents(cal.events, Now)
        /\ pc' = AfterEvents(cal.err, activeEvents')
        /\ result' = IF cal.err THEN ErrCalendar
                     ELSE IF pc' = "Close" THEN "nil" ELSE result
        /\ lastFilter' = IF cal.err THEN lastFilter
                         ELSE <<FilterCall(cal.events, Now, activeEvents')>>
    /\ UNCHANGED <<wgVars, cfgVars, vmList, pairs, restoreErrors, passwords,
                   restoreSteps, wireguardConfigs, i, emails, direct>>

\* Run: SelectAllVMs and the return when it yields nothing
RunSelectAllVMs ==
    /\ pc = "SelectAllVMs"
    /\ calls' = Append(calls, Call("SelectAllVMs", 0, FALSE))
    /\ \E order \in MapOrders(userVMMappings) :
          pairs' = SelectAllVMs(vmList, userVMMappings, order)
    /\ IF Len(pairs') = 0
       THEN /\ result' = NoPairsResult(activeEvents)
            /\ pc' = "Close"
       ELSE /\ result' = result
            /\ pc' = "RestoreVMs"
    /\ UNCHANGED <<wgVars, cfgVars, vmList, activeEvents, restoreErrors, passwords,
                   restoreSteps, wireguardConfigs, i, emails,
                   lastFilter, direct>>

\* RestoreVMs: the restore batch
RunRestoreBatch ==
    /\ pc = "RestoreVMs"
    /\ \E env \in BatchEnv(Len(FlatVMs(pairs))) :
        LET r == RestoreVMsWithPasswordRotation(FlatVMs(pairs), FlatUsers(pairs), env)
        IN  /\ restoreErrors' = r.errors
            /\ passwords' = r.passwords
            /\ restoreSteps' = r.steps
            /\ pc' = AfterBatch(r.errors, r.passwords, hasWireGuard)
    /\ calls' = Append(calls, Call("RestoreVMsWithPasswordRotation", 0, FALSE))
    /\ i' = 1
    /\ UNCHANGED <<wgVars, cfgVars, vmList, activeEvents, pairs, wireguardConfigs,
                   result, emails,
                   lastFilter, direct>>

\* the WireGuard loop leaving at the first key rotation that fails
RunWireGuardBreakOnError ==
    /\ pc = "WireGuard"
    /\ \E draw \in RunKeyDraws(i), env \in RunGatewayEnv :
        LET username == pairs[i].User
            rot == RotateUserKey(privateKeys, username, draw)
            reg == RegisterPeerWithOPNsense(config, opnsenseClient, rows, username,
                                            rot.pub, i - 1, env)
            gen == GenerateClientConfig(config, rot.keys, username, i - 1)
        IN  IF rot.err
            THEN /\ calls' = Append(calls, Call("RotateUserKey", i, TRUE))
                 /\ i' = 1
                 /\ pc' = "Email"
                 /\ UNCHANGED <<privateKeys, rows, lastReg, wireguardConfigs>>
            ELSE /\ calls' = calls \o << Call("RotateUserKey", i, FALSE),
                                         Call("RegisterPeerWithOPNsense", i, reg.res # "nil"),
                                         Call("GenerateClientConfig", i, gen.err) >>
                 /\ privateKeys' = rot.keys
                 /\ rows' = reg.rows
                 /\ lastReg' = <<RegCall(username, rot.pub, i - 1, reg)>> \o lastReg
                 /\ wireguardConfigs' = IF gen.err THEN wireguardConfigs
                                        ELSE Put(wireguardConfigs, username, gen.conf[1])
                 /\ IF i < Len(pairs)
                    THEN i' = i + 1 /\ pc' = pc
                    ELSE i' = 1 /\ pc' = "Email"
    /\ UNCHANGED <<config, opnsenseClient, cfgVars, vmList, activeEvents, pairs,
                   restoreErrors, passwords, restoreSteps, result, emails,
                   lastFilter, direct>>

\* RestoreVMs: one iteration of the WireGuard loop
RunWireGuard ==
    /\ pc = "WireGuard"
    /\ \E draw \in RunKeyDraws(i), env \in RunGatewayEnv :
        LET username == pairs[i].User
            rot == RotateUserKey(privateKeys, username, draw)
            reg == RegisterPeerWithOPNsense(config, opnsenseClient, rows, username,
                                            rot.pub, i - 1, env)
            gen == GenerateClientConfig(config, rot.keys, username, i - 1)
        IN  IF rot.err
            THEN /\ calls' = Append(calls, Call("RotateUserKey", i, TRUE))
                 /\ UNCHANGED <<privateKeys, rows, lastReg, wireguardConfigs>>
            ELSE /\ calls' = calls \o << Call("RotateUserKey", i, FALSE),
                                         Call("RegisterPeerWithOPNsense", i, reg.res # "nil"),
                                         Call("GenerateClientConfig", i, gen.err) >>
                 /\ privateKeys' = rot.keys
                 /\ rows' = reg.rows
                 /\ lastReg' = <<RegCall(username, rot.pub, i - 1, reg)>> \o lastReg
                 /\ wireguardConfigs' = IF gen.err THEN wireguardConfigs
                                        ELSE Put(wireguardConfigs, username, gen.conf[1])
    /\ IF i < Len(pairs)
       THEN /\ i' = i + 1
            /\ pc' = pc
       ELSE /\ i' = 1
            /\ pc' = "Email"
    /\ UNCHANGED <<config, opnsenseClient, cfgVars, vmList, activeEvents, pairs,
                   restoreErrors, passwords, restoreSteps, result, emails,
                   lastFilter, direct>>

\* an attachment taken from any profile generated in the run
AttachmentOfAnyUser(configs, username) ==
    IF DOMAIN configs # {}
    THEN <<configs[CHOOSE u \in DOMAIN configs : TRUE]>> ELSE <<>>

\* RestoreVMs: the attachment of a user's email, <<>> for none
Attachment(configs, username) ==
    IF username \in DOMAIN configs THEN <<configs[username]>> ELSE <<>>

Mail(idx, to, vmName, username, password, attachment) ==
    [i |-> idx, to |-> to, vmName |-> vmName, username |-> username,
     password |-> password, attachment |-> attachment]

\* a message that takes the password of the first user of the password map
CredentialsMailFirstPassword(idx, ps, events, pws, configs) ==
    LET username == ps[idx].User
        vmName == IF Len(ps[idx].VMs) > 0 THEN ps[idx].VMs[1] ELSE ""
        first == CHOOSE u \in DOMAIN pws : \A v \in DOMAIN pws : ~StringLess(v, u)
    IN  Mail(idx, events[idx].Email, vmName, username, pws[first],
             Attachment(configs, username))

\* RestoreVMs: the arguments of SendPasswordEmailWithAttachment for pair idx
CredentialsMail(idx, ps, events, pws, configs) ==
    LET username == ps[idx].User
        vmName == IF Len(ps[idx].VMs) > 0 THEN ps[idx].VMs[1] ELSE ""
    IN  Mail(idx, events[idx].Email, vmName, username, pws[username],
             Attachment(configs, username))

\* RestoreVMs: one iteration of the notification loop
RunEmail ==
    /\ pc = "Email"
    /\ IF SendsEmail(hasEmail, passwords, pairs, activeEvents, i)
       THEN /\ emails' = Append(emails, CredentialsMail(i, pairs, activeEvents,
                                                        passwords, wireguardConfigs))
            /\ \E err \in BOOLEAN :
                 calls' = Append(calls, Call("SendPasswordEmailWithAttachment", i, err))
       ELSE UNCHANGED <<emails, calls>>
    /\ IF i < Len(pairs)
       THEN /\ i' = i + 1
            /\ pc' = pc
       ELSE /\ i' = 1
            /\ pc' = "Finish"
    /\ UNCHANGED <<wgVars, cfgVars, vmList, activeEvents, pairs, restoreErrors,
                   passwords, restoreSteps, wireguardConfigs, result,
                   lastFilter, direct>>

\* RestoreVMs: the return
RunFinish ==
    /\ pc = "Finish"
    /\ result' = RestoreResult(restoreErrors)
    /\ pc' = "Close"
    /\ UNCHANGED <<wgVars, cfgVars, vmList, activeEvents, pairs, restoreErrors,
                   passwords, restoreSteps, wireguardConfigs, i, calls, emails,
                   lastFilter, direct>>

\* a Run that returns the error of the deferred Close
RunCloseReturnsError ==
    /\ pc = "Close"
    /\ \E err \in BOOLEAN :
          /\ calls' = Append(calls, Call("Close", 0, err))
          /\ result' = IF err THEN "failed to close VMware service" ELSE result
    /\ pc' = "returned"
    /\ UNCHANGED <<wgVars, cfgVars, vmList, activeEvents, pairs, restoreErrors,
                   passwords, restoreSteps, wireguardConfigs, i, emails,
                   lastFilter, direct>>

\* Run: the deferred VMware.Close; its error is only logged
RunClose ==
    /\ pc = "Close"
    /\ \E err \in BOOLEAN : calls' = Append(calls, Call("Close", 0, err))
    /\ pc' = "returned"
    /\ UNCHANGED <<wgVars, cfgVars, vmList, activeEvents, pairs, restoreErrors,
                   passwords, restoreSteps, wireguardConfigs, i, result, emails,
                   lastFilter, direct>>

DirectCall(fn, in, out) == [fn |-> fn, in |-> in, out |-> out]

\* a direct call of ExtractEmailFromSummary
CallExtractEmailFromSummary ==
    /\ harness = "direct"
    /\ direct = <<>>
    /\ \E summary \in Summaries :
          direct' = <<DirectCall("ExtractEmailFromSummary", summary,
                                 ExtractEmailFromSummary(summary))>>
    /\ UNCHANGED <<wgVars, cfgVars, runVars, lastFilter>>

\* a direct call of SelectVMsToRestore; a further call runs on the inputs of
\* the first, the map being iterated in an order of its own
CallSelectVMsToRestore ==
    /\ harness = "direct"
    /\ Len(direct) < MaxSelections
    /\ \A k \in 1..Len(direct) : direct[k].fn = "SelectVMsToRestore"
    /\ \E vms \in SelectInventories, mappings \in SelectMappings,
          eventCount \in 0..MaxCount :
          /\ direct # <<>> =>
                /\ vms = direct[1].in.vmList
                /\ mappings = direct[1].in.mappings
                /\ eventCount = direct[1].in.eventCount
          /\ \E order \in MapOrders(mappings) :
                direct' = Append(direct,
                    DirectCall("SelectVMsToRestore",
                               [vmList |-> vms, mappings |-> mappings,
                                eventCount |-> eventCount, order |-> order],
                               SelectVMsToRestore(vms, eventCount, mappings, order)))
    /\ UNCHANGED <<wgVars, cfgVars, runVars, lastFilter>>

\* a direct call of SelectAllVMs, repeated in the same way
CallSelectAllVMs ==
    /\ harness = "direct"
    /\ Len(direct) < MaxSelections
    /\ \A k \in 1..Len(direct) : direct[k].fn = "SelectAllVMs"
    /\ \E vms \in SelectInventories, mappings \in SelectMappings :
          /\ direct # <<>> =>
                /\ vms = direct[1].in.vmList
                /\ mappings = direct[1].in.mappings
          /\ \E order \in MapOrders(mappings) :
                direct' = Append(direct,
                    DirectCall("SelectAllVMs",
                               [vmList |-> vms, mappings |-> mappings,
                                order |-> order],
                               SelectAllVMs(vms, mappings, order)))
    /\ UNCHANGED <<wgVars, cfgVars, runVars, lastFilter>>

\* a direct call of findSnapshotInTree
CallFindSnapshotInTree ==
    /\ harness = "direct"
    /\ direct = <<>>
    /\ \E tree \in Forests, name \in SearchedNames :
          direct' = <<DirectCall("findSnapshotInTree", [tree |-> tree, name |-> name],
                                 findSnapshotInTree(tree, name))>>
    /\ UNCHANGED <<wgVars, cfgVars, runVars, lastFilter>>

\* a direct call of findLatestSnapshotInTree
CallFindLatestSnapshotInTree ==
    /\ harness = "direct"
    /\ direct = <<>>
    /\ \E tree \in Forests :
          direct' = <<DirectCall("findLatestSnapshotInTree", [tree |-> tree],
                                 findLatestSnapshotInTree(tree))>>
    /\ UNCHANGED <<wgVars, cfgVars, runVars, lastFilter>>

\* a direct call of restoreVM
CallRestoreVM ==
    /\ harness = "direct"
    /\ direct = <<>>
    /\ \E env \in RestoreEnv, snapshotName \in SnapshotNameArgs :
          direct' = <<DirectCall("restoreVM", [env |-> env, snapshotName |-> snapshotName],
                                 restoreVM(env, snapshotName))>>
    /\ UNCHANGED <<wgVars, cfgVars, runVars, lastFilter>>

\* a direct call of checkMutationResponse
CallCheckMutationResponse ==
    /\ harness = "direct"
    /\ direct = <<>>
    /\ \E resp \in Responses :
          direct' = <<DirectCall("checkMutationResponse", resp,
                                 checkMutationResponse(resp))>>
    /\ UNCHANGED <<wgVars, cfgVars, runVars, lastFilter>>

\* a call of RotateUserKey
CallRotateUserKey ==
    /\ harness = "keys"
    /\ Len(direct) < MaxKeyCalls
    /\ \E username \in Users, draw \in KeyDraws :
          LET r == RotateUserKey(privateKeys, username, draw)
          IN  /\ privateKeys' = r.keys
              /\ direct' = Append(direct,
                    DirectCall("RotateUserKey",
                               [username |-> username, keys |-> privateKeys],
                               [err |-> r.err, priv |-> draw.priv, pub |-> r.pub,
                                keys |-> r.keys]))
    /\ UNCHANGED <<config, opnsenseClient, rows, lastReg, cfgVars, runVars, lastFilter>>

\* a call of GenerateClientConfig: one call with any index on a configured
\* service, or a call among the rotations
CallGenerateClientConfig ==
    /\ \/ harness = "profile" /\ direct = <<>>
       \/ harness = "keys" /\ Len(direct) < MaxKeyCalls
    /\ \E username \in Users,
          userIndex \in IF harness = "keys" THEN {0} ELSE (-1)..MaxIndex :
          direct' = Append(direct,
              DirectCall("GenerateClientConfig",
                         [username |-> username, userIndex |-> userIndex,
                          config |-> config, keys |-> privateKeys],
                         GenerateClientConfig(config, privateKeys, username, userIndex)))
    /\ UNCHANGED <<wgVars, cfgVars, runVars, lastFilter>>

\* a direct call of UpdatePeer or CreatePeer
CallPeerMutation ==
    /\ harness = "direct"
    /\ direct = <<>>
    /\ \E endpoint \in Endpoints, env \in MutationEnv :
          direct' = <<DirectCall("PeerMutation", [endpoint |-> endpoint, env |-> env],
                                 PeerMutation(endpoint, env))>>
    /\ UNCHANGED <<wgVars, cfgVars, runVars, lastFilter>>

\* a direct call of VMwareService.Close
CallClose ==
    /\ harness = "direct"
    /\ direct = <<>>
    /\ \E client \in Clients :
          direct' = <<DirectCall("Close", client, Close(client))>>
    /\ UNCHANGED <<wgVars, cfgVars, runVars, lastFilter>>

\* a direct call of normalizeTunnelAddress
CallNormalizeTunnelAddress ==
    /\ harness = "direct"
    /\ direct = <<>>
    /\ \E addr \in TunnelAddresses :
          direct' = <<DirectCall("normalizeTunnelAddress", addr,
                                 normalizeTunnelAddress(addr))>>
    /\ UNCHANGED <<wgVars, cfgVars, runVars, lastFilter>>

\* a direct call of SearchPeerByTunnelAddress on a gateway of two rows
CallSearchPeerByTunnelAddress ==
    /\ harness = "direct"
    /\ direct = <<>>
    /\ \E a1 \in SearchAddresses, a2 \in SearchAddresses,
          tunnelAddress \in SearchAddresses, fault \in SearchFaults :
          LET rs == <<PeerRow("uuid-1", "peer-1", "pub1", a1, "srv1"),
                      PeerRow("uuid-2", "peer-2", "pub2", a2, "srv1")>>
          IN  direct' = <<DirectCall("SearchPeerByTunnelAddress",
                                     [rows |-> rs, tunnelAddress |-> tunnelAddress,
                                      fault |-> fault],
                                     SearchPeerByTunnelAddress(rs, tunnelAddress, fault))>>
    /\ UNCHANGED <<wgVars, cfgVars, runVars, lastFilter>>

Next ==
    \/ CallRegisterPeer
    \/ CallFilterActiveEvents
    \/ CallExtractEmailFromSummary
    \/ CallSelectVMsToRestore
    \/ CallSelectAllVMs
    \/ CallFindSnapshotInTree
    \/ CallFindLatestSnapshotInTree
    \/ CallRestoreVM
    \/ CallCheckMutationResponse
    \/ CallPeerMutation
    \/ CallClose
    \/ CallNormalizeTunnelAddress
    \/ CallSearchPeerByTunnelAddress
    \/ CallRotateUserKey
    \/ CallGenerateClientConfig
    \/ RunFetchVMInventory
    \/ RunFetchActiveEvents
    \/ RunSelectAllVMs
    \/ RunRestoreBatch
    \/ RunWireGuard
    \/ RunEmail
    \/ RunFinish
    \/ RunClose

Spec == Init /\ [][Next]_vars

\* ================================================================= claims
Orch == harness = "orchestrator"

Called(op) == \E k \in 1..Len(calls) : calls[k].op = op

CalledOk(op) == \E k \in 1..Len(calls) : calls[k].op = op /\ ~calls[k].err

Failed(op) == \E k \in 1..Len(calls) : calls[k].op = op /\ calls[k].err

Count(op, idx) == Cardinality({k \in 1..Len(calls) : calls[k].op = op /\ calls[k].i = idx})

OpCount(c, op) == Cardinality({k \in 1..Len(c.ops) : c.ops[k].op = op})

ValidIndex(c) == c.userIndex >= 0 /\ c.userIndex < Len(config.ClientAddresses)

\* the call searched, found a peer and its UpdatePeer succeeded
UpdateSucceeded(c) ==
    /\ Len(c.ops) >= 2
    /\ c.ops[1].op = "search" /\ ~c.ops[1].err /\ c.ops[1].peer # <<>>
    /\ c.ops[2].op = "update" /\ ~c.ops[2].err

WGOps == {"RotateUserKey", "RegisterPeerWithOPNsense", "GenerateClientConfig"}

SideEffectOps ==
    WGOps \cup {"RestoreVMsWithPasswordRotation", "SendPasswordEmailWithAttachment"}

\* C1: after a successful UpdatePeer the call re-queries the same tunnel
\* address and returns nil exactly when the re-query returns a peer whose
\* public key is the key just written; any other key gives the key-mismatch
\* error.
C1_ReadAfterWrite ==
    lastReg # <<>> =>
        LET c == lastReg[1]
        IN  (config.AutoRegisterPeers /\ opnsenseClient /\ ValidIndex(c)
                /\ UpdateSucceeded(c)) =>
              /\ Len(c.ops) = 3
              /\ c.ops[3].op = "search"
              /\ c.ops[3].addr = c.ops[1].addr
              /\ c.ops[3].addr = config.ClientAddresses[c.userIndex + 1]
              /\ (c.res = "nil") <=>
                    (/\ ~c.ops[3].err
                     /\ c.ops[3].peer # <<>>
                     /\ c.ops[3].peer[1].PubKey = c.publicKey)
              /\ (~c.ops[3].err /\ c.ops[3].peer # <<>>
                    /\ c.ops[3].peer[1].PubKey # c.publicKey) => c.res = ErrMismatch

\* a re-query that returned the key "wrong" for a written key ended in the
\* key-mismatch error
C1_Witness ==
    /\ lastReg # <<>>
    /\ UpdateSucceeded(lastReg[1])
    /\ Len(lastReg[1].ops) = 3
    /\ lastReg[1].ops[3].peer # <<>>
    /\ lastReg[1].ops[3].peer[1].PubKey = "wrong"
    /\ lastReg[1].res = ErrMismatch

\* C2: after a successful UpdatePeer the failed re-query, the missing peer
\* and the mismatched key are reported by three different errors, each for
\* its own cause only, and none of them by a search or update error.
C2_VerificationErrorsDistinct ==
    lastReg # <<>> =>
        LET c == lastReg[1]
        IN  UpdateSucceeded(c) =>
              /\ Len(c.ops) = 3
              /\ (c.res = ErrVerify) <=> c.ops[3].err
              /\ (c.res = ErrDisappeared) <=> (~c.ops[3].err /\ c.ops[3].peer = <<>>)
              /\ (c.res = ErrMismatch) <=>
                    (/\ ~c.ops[3].err
                     /\ c.ops[3].peer # <<>>
                     /\ c.ops[3].peer[1].PubKey # c.publicKey)
              /\ Cardinality({ErrVerify, ErrDisappeared, ErrMismatch}) = 3
              /\ c.res \notin {ErrSearch, ErrUpdate, ErrNoPeer}

\* the peer was gone at the re-query and the call said so
C2_Witness ==
    /\ lastReg # <<>>
    /\ UpdateSucceeded(lastReg[1])
    /\ Len(lastReg[1].ops) = 3
    /\ ~lastReg[1].ops[3].err
    /\ lastReg[1].ops[3].peer = <<>>
    /\ lastReg[1].res = ErrDisappeared

C6_GatewayOnlyWhenConfigured ==
    lastReg # <<>> =>
        LET c == lastReg[1]
        IN  /\ ~config.AutoRegisterPeers =>
                  c.res = "nil" /\ c.ops = <<>> /\ rows = c.before
            /\ (config.AutoRegisterPeers /\ ~opnsenseClient) =>
                  c.res = ErrNoClient /\ c.ops = <<>> /\ rows = c.before
            /\ (config.AutoRegisterPeers /\ opnsenseClient /\ ~ValidIndex(c)) =>
                  c.res = ErrInvalidIndex /\ c.ops = <<>> /\ rows = c.before
            /\ c.ops # <<>> =>
                  config.AutoRegisterPeers /\ opnsenseClient /\ ValidIndex(c)

\* a call with a negative index
C6_Witness ==
    /\ lastReg # <<>>
    /\ config.AutoRegisterPeers
    /\ opnsenseClient
    /\ lastReg[1].userIndex < 0
    /\ lastReg[1].res = ErrInvalidIndex
    /\ lastReg[1].ops = <<>>

\* C5: one call performs at most two searches and one update, and the first
\* failing step is its last step and makes it return an error; one run
\* calls RotateUserKey, RegisterPeerWithOPNsense and GenerateClientConfig at
\* most once for each assignment and the restore batch at most once.
C5_NoRetries ==
    /\ lastReg # <<>> =>
          LET c == lastReg[1]
          IN  /\ OpCount(c, "search") <= 2
              /\ OpCount(c, "update") <= 1
              /\ Len(c.ops) <= 3
              /\ \A k \in 1..Len(c.ops) :
                    c.ops[k].err => k = Len(c.ops) /\ c.res \in RegisterErrors
              /\ \A k \in 1..Len(c.ops) :
                    (c.ops[k].op = "search" /\ ~c.ops[k].err /\ c.ops[k].peer = <<>>) =>
                        k = Len(c.ops) /\ c.res \in RegisterErrors
              /\ c.res \in {ErrVerify, ErrDisappeared, ErrMismatch} =>
                    Len(c.ops) = 3 /\ OpCount(c, "update") = 1
    /\ \A k1, k2 \in 1..Len(calls) :
          (/\ calls[k1].op \in WGOps \cup {"RestoreVMsWithPasswordRotation"}
           /\ calls[k1].op = calls[k2].op
           /\ calls[k1].i = calls[k2].i) => k1 = k2

\* a finished run that rotated, registered and generated for two
\* assignments, the second registration having searched, updated and
\* searched again
C5_Witness ==
    /\ Orch
    /\ pc = "returned"
    /\ Count("RestoreVMsWithPasswordRotation", 0) = 1
    /\ \A idx \in 1..2 : \A op \in WGOps : Count(op, idx) = 1
    /\ lastReg # <<>>
    /\ OpCount(lastReg[1], "search") = 2
    /\ OpCount(lastReg[1], "update") = 1

NoSideEffects ==
    /\ \A k \in 1..Len(calls) : calls[k].op \notin SideEffectOps \cup {"SelectAllVMs"}
    /\ emails = <<>>
    /\ lastReg = <<>>
    /\ privateKeys = EmptyMap
    /\ passwords = EmptyMap
    /\ restoreSteps = <<>>

\* C7: a run whose inventory fetch fails returns that error without
\* fetching bookings, and a run whose booking fetch fails returns that
\* error; neither restores, rotates a password or a VPN key, registers a
\* peer or sends a notification.
C7_FatalNoSideEffect ==
    Orch =>
        /\ Failed("ListVMSnapshots") =>
              /\ pc = "returned"
              /\ result = ErrInventory
              /\ ~Called("ListEvents")
              /\ NoSideEffects
        /\ Failed("ListEvents") =>
              /\ pc \in {"Close", "returned"}
              /\ result = ErrCalendar
              /\ NoSideEffects

\* a run that returned the booking fetch error
C7_Witness ==
    /\ Orch
    /\ CalledOk("ListVMSnapshots")
    /\ Failed("ListEvents")
    /\ pc = "returned"
    /\ result = ErrCalendar

\* both fetches succeeded and no booking is active
NoActiveEvents ==
    /\ Orch
    /\ CalledOk("ListVMSnapshots")
    /\ CalledOk("ListEvents")
    /\ activeEvents = <<>>

\* C8 as stated: with both fetches successful and no active booking, Run
\* returns success without selecting assignments and without any restore,
\* password rotation, VPN operation or notification.
C8_Original ==
    NoActiveEvents =>
        /\ ~Called("SelectAllVMs")
        /\ \A k \in 1..Len(calls) : calls[k].op \notin SideEffectOps
        /\ passwords = EmptyMap
        /\ privateKeys = EmptyMap
        /\ pc = "returned" => result = "nil"

\* C8: with both fetches successful and no active booking, Run still
\* selects assignments; with none selected it returns success without
\* restoring, otherwise it runs the restore batch once and returns its
\* result; no notification is sent.
C8_NoActiveEvents ==
    NoActiveEvents =>
        /\ ~Called("SendPasswordEmailWithAttachment")
        /\ emails = <<>>
        /\ pc \in {"RestoreVMs", "WireGuard", "Email", "Finish", "Close", "returned"} =>
              Called("SelectAllVMs")
        /\ pc = "returned" =>
              IF pairs = <<>>
              THEN /\ result = "nil"
                   /\ ~Called("RestoreVMsWithPasswordRotation")
              ELSE /\ Count("RestoreVMsWithPasswordRotation", 0) = 1
                   /\ result = IF Len(restoreErrors) > 0 THEN ErrPartial ELSE "nil"

\* a finished run without an active booking that restored, rotated a
\* password and a VPN key and registered the peer
C8_Witness ==
    /\ NoActiveEvents
    /\ pc = "returned"
    /\ Called("RestoreVMsWithPasswordRotation")
    /\ DOMAIN passwords # {}
    /\ CalledOk("RotateUserKey")
    /\ CalledOk("RegisterPeerWithOPNsense")
    /\ emails = <<>>

\* C9: when both fetches succeed and no assignment is selected, Run returns
\* the no-VMs error exactly when a booking is active and success otherwise,
\* and the restore batch is not invoked.
C9_NoPairs ==
    (/\ Orch
     /\ pc \in {"Close", "returned"}
     /\ Called("SelectAllVMs")
     /\ pairs = <<>>) =>
        /\ (result = ErrNoVMs) <=> (Len(activeEvents) > 0)
        /\ (result = "nil") <=> (Len(activeEvents) = 0)
        /\ ~Called("RestoreVMsWithPasswordRotation")
        /\ restoreSteps = <<>>

\* a run with an active booking and nothing to restore
C9_Witness ==
    /\ Orch
    /\ pc = "returned"
    /\ Called("SelectAllVMs")
    /\ pairs = <<>>
    /\ Len(activeEvents) > 0
    /\ result = ErrNoVMs

\* C10: when the restore batch reports an error RestoreVMs returns the
\* partial-failure error, and by then every user whose password was rotated
\* has had the VPN key rotation attempted, the registration and the client
\* configuration run when the key was rotated, and the notification sent
\* when a mailer, a booking of that index and its address exist.
C10_PartialFailure ==
    (/\ Orch
     /\ pc \in {"Close", "returned"}
     /\ Called("RestoreVMsWithPasswordRotation")
     /\ Len(restoreErrors) > 0) =>
        /\ result = ErrPartial
        /\ \A idx \in 1..Len(pairs) :
              pairs[idx].User \in DOMAIN passwords =>
                /\ hasWireGuard => Count("RotateUserKey", idx) = 1
                /\ (\E k \in 1..Len(calls) :
                        /\ calls[k].op = "RotateUserKey"
                        /\ calls[k].i = idx
                        /\ ~calls[k].err) =>
                      /\ Count("RegisterPeerWithOPNsense", idx) = 1
                      /\ Count("GenerateClientConfig", idx) = 1
                /\ (/\ hasEmail
                    /\ idx <= Len(activeEvents)
                    /\ activeEvents[idx].Email # <<>>) =>
                      \E m \in 1..Len(emails) :
                          /\ emails[m].i = idx
                          /\ emails[m].to = activeEvents[idx].Email
                          /\ emails[m].username = pairs[idx].User
                          /\ emails[m].password = passwords[pairs[idx].User]

\* a run in which one machine failed to restore while another user's
\* password was rotated, the VPN key rotated and the credentials mailed
C10_Witness ==
    /\ Orch
    /\ pc = "returned"
    /\ result = ErrPartial
    /\ \E k \in 1..Len(restoreErrors) : restoreErrors[k][1] = "failed to restore"
    /\ CalledOk("RotateUserKey")
    /\ \E m \in 1..Len(emails) : emails[m].username \in DOMAIN passwords

CallAt(op, idx, err) == \E k \in 1..Len(calls) : calls[k] = Call(op, idx, err)

\* the restore batch has returned and RestoreVMs has decided its result
BatchDone ==
    /\ Orch
    /\ pc \in {"Close", "returned"}
    /\ Called("RestoreVMsWithPasswordRotation")

\* C11: the result of RestoreVMs is nil exactly when the restore error list
\* is empty, whatever the VPN key rotation, registration, profile
\* generation or email delivery returned; and each of these is attempted
\* for every assignment it applies to, whatever it returned for another.
C11_ResultByRestoreErrors ==
    BatchDone =>
        /\ (result = "nil") <=> (restoreErrors = <<>>)
        /\ (result = ErrPartial) <=> (restoreErrors # <<>>)
        /\ DOMAIN passwords # {} =>
              \A idx \in 1..Len(pairs) :
                /\ hasWireGuard => Count("RotateUserKey", idx) = 1
                /\ CallAt("RotateUserKey", idx, FALSE) =>
                      /\ Count("RegisterPeerWithOPNsense", idx) = 1
                      /\ Count("GenerateClientConfig", idx) = 1
                /\ (/\ hasEmail
                    /\ pairs[idx].User \in DOMAIN passwords
                    /\ idx <= Len(activeEvents)
                    /\ activeEvents[idx].Email # <<>>) =>
                      Count("SendPasswordEmailWithAttachment", idx) = 1

\* a run that returned nil although the first user's key rotation and email
\* delivery failed and the second user's registration failed, the second
\* user's steps having all been attempted
C11_Witness ==
    /\ BatchDone
    /\ pc = "returned"
    /\ result = "nil"
    /\ CallAt("RotateUserKey", 1, TRUE)
    /\ CallAt("SendPasswordEmailWithAttachment", 1, TRUE)
    /\ CallAt("RotateUserKey", 2, FALSE)
    /\ CallAt("RegisterPeerWithOPNsense", 2, TRUE)
    /\ Count("GenerateClientConfig", 2) = 1
    /\ Count("SendPasswordEmailWithAttachment", 2) = 1

\* the positions of the steps of one kind, in the order they were taken
StepsOf(kind) ==
    LET sel == SelectSeq(restoreSteps, LAMBDA st : st[1] = kind)
    IN  [k \in 1..Len(sel) |-> sel[k][2]]

BatchCalled == Orch /\ Called("RestoreVMsWithPasswordRotation")

HostFailed ==
    /\ BatchCalled
    /\ restoreErrors # <<>>
    /\ restoreErrors[1][1] = "failed to get ESXi host"

\* C12 as stated: every machine of the input list has its restore attempted
\* exactly once, in list order.
C12_Original ==
    BatchCalled => StepsOf("restore") = [k \in 1..Len(FlatVMs(pairs)) |-> k]

\* C12: when the host lookup succeeds every machine of the input list has
\* its restore attempted exactly once, in list order, whatever failed for
\* another machine; when the host lookup fails no restore is attempted and
\* the batch returns that single error and no password.
C12_RestoreIsolation ==
    BatchCalled =>
        IF HostFailed
        THEN /\ restoreSteps = <<>>
             /\ Len(restoreErrors) = 1
             /\ passwords = EmptyMap
        ELSE StepsOf("restore") = [k \in 1..Len(FlatVMs(pairs)) |-> k]

\* a batch whose first machine failed to restore and whose second machine
\* was restored all the same
C12_Witness ==
    /\ BatchCalled
    /\ ~HostFailed
    /\ Len(FlatVMs(pairs)) = 2
    /\ restoreErrors # <<>>
    /\ restoreErrors[1] = <<"failed to restore", FlatVMs(pairs)[1]>>
    /\ StepsOf("restore") = <<1, 2>>
    /\ StepsOf("rotate") = <<2>>

\* C13 as stated: within one batch every rotation step follows every
\* restore step.
C13_Original ==
    BatchCalled =>
        \A a, b \in 1..Len(restoreSteps) :
            (restoreSteps[a][1] = "rotate" /\ restoreSteps[b][1] = "restore") => b < a

\* C13: within one batch the rotation for a machine is attempted right
\* after that machine's own successful restore and before the restore of
\* the next machine; restores and rotations alternate in list order.
C13_RotateFollowsOwnRestore ==
    BatchCalled =>
        \A k \in 1..Len(restoreSteps) :
            restoreSteps[k][1] = "rotate" =>
              /\ k > 1
              /\ restoreSteps[k - 1] = <<"restore", restoreSteps[k][2]>>
              /\ \A e \in 1..Len(restoreErrors) :
                    restoreErrors[e] # <<"failed to restore",
                                         FlatVMs(pairs)[restoreSteps[k][2]]>>
              /\ \A b \in 1..Len(restoreSteps) :
                    (restoreSteps[b][1] = "restore" /\ restoreSteps[b][2] > restoreSteps[k][2])
                        => b > k

\* a batch of two machines in which the first user's password was rotated
\* before the second machine was restored
C13_Witness ==
    /\ BatchCalled
    /\ restoreSteps = << <<"restore", 1>>, <<"rotate", 1>>,
                         <<"restore", 2>>, <<"rotate", 2>> >>

\* C14: a rotation is attempted for the machine at position i only if its
\* restore succeeded and its assigned user is non-empty; an assignment with
\* an empty user never has a rotation attempted and never adds a rotation
\* error.
C14_NoRotationForEmptyUser ==
    BatchCalled =>
        /\ \A k \in 1..Len(restoreSteps) :
              restoreSteps[k][1] = "rotate" =>
                /\ FlatUsers(pairs)[restoreSteps[k][2]] # ""
                /\ \A e \in 1..Len(restoreErrors) :
                      restoreErrors[e] # <<"failed to restore",
                                           FlatVMs(pairs)[restoreSteps[k][2]]>>
        /\ \A e \in 1..Len(restoreErrors) :
              restoreErrors[e] # <<"failed to rotate password for user", "">>
        /\ "" \notin DOMAIN passwords

RestoreFailedAt(k) ==
    \E e \in 1..Len(restoreErrors) :
        restoreErrors[e] = <<"failed to restore", FlatVMs(pairs)[k]>>

RotateFailedAt(k) ==
    \E e \in 1..Len(restoreErrors) :
        restoreErrors[e] = <<"failed to rotate password for user", FlatUsers(pairs)[k]>>

C16_VpnOnlyWithPassword ==
    Orch =>
        \A k \in 1..Len(calls) :
            calls[k].op \in {"RotateUserKey", "RegisterPeerWithOPNsense"} =>
              /\ pairs[calls[k].i].User \in DOMAIN passwords
              /\ pairs[calls[k].i].User # ""

\* the notification loop of the run has finished
EmailLoopDone ==
    /\ BatchCalled
    /\ pc \in {"Finish", "Close", "returned"}

\* C17: a credentials email is sent for the assignment at index i exactly
\* when a sender is configured, the user has a rotated password, a booking
\* of index i exists and its contact address is non-empty; at most one per
\* assignment, and none to an empty address.
C17_EmailConditions ==
    /\ EmailLoopDone =>
          \A idx \in 1..Len(pairs) :
              (\E m \in 1..Len(emails) : emails[m].i = idx) <=>
                  (/\ hasEmail
                   /\ pairs[idx].User \in DOMAIN passwords
                   /\ idx <= Len(activeEvents)
                   /\ activeEvents[idx].Email # <<>>)
    /\ \A m \in 1..Len(emails) :
          /\ emails[m].i \in 1..Len(pairs)
          /\ emails[m].i <= Len(activeEvents)
          /\ emails[m].to # <<>>
          /\ emails[m].to = activeEvents[emails[m].i].Email
          /\ emails[m].username \in DOMAIN passwords
          /\ \A n \in 1..Len(emails) : emails[n].i = emails[m].i => n = m
    /\ Len(emails) =
          Cardinality({k \in 1..Len(calls) :
                          calls[k].op = "SendPasswordEmailWithAttachment"})

\* a finished run in which the first assignment got its email and the
\* second, whose user has a rotated password, did not because only one
\* booking is active
C17_Witness ==
    /\ EmailLoopDone
    /\ pc = "returned"
    /\ Len(pairs) = 2
    /\ Len(activeEvents) = 1
    /\ pairs[2].User \in DOMAIN passwords
    /\ Len(emails) = 1
    /\ emails[1].i = 1

\* the gateway answered every request of the call and returned at the
\* re-query the record the update had sent
GatewayBehaved(c) ==
    /\ \A k \in 1..Len(c.ops) : ~c.ops[k].err
    /\ Len(c.ops) = 3 => c.ops[3].peer = c.ops[2].args

\* two bookings with an address, two assignments of one machine each, the
\* VPN configured with two addresses, and no failure of any external call
EndToEndCase ==
    /\ Orch
    /\ pc = "returned"
    /\ hasWireGuard /\ hasEmail
    /\ config.Enabled /\ config.AutoRegisterPeers /\ opnsenseClient
    /\ Len(config.ClientAddresses) = 2
    /\ Len(pairs) = 2
    /\ Len(FlatVMs(pairs)) = 2
    /\ Len(activeEvents) = 2
    /\ \A k \in 1..2 : activeEvents[k].Email # <<>>
    /\ restoreErrors = <<>>
    /\ \A k \in 1..Len(calls) :
          calls[k].op \in {"ListVMSnapshots", "ListEvents", "RotateUserKey",
                           "SendPasswordEmailWithAttachment", "Close"}
              => ~calls[k].err
    /\ \A k \in 1..Len(lastReg) : GatewayBehaved(lastReg[k])

\* C18: in the end-to-end case the run returns nil with two machines
\* restored, two passwords, two key pairs, two peers updated and verified,
\* and two emails with one attachment each.
C18_EndToEnd ==
    EndToEndCase =>
        /\ result = "nil"
        /\ StepsOf("restore") = <<1, 2>>
        /\ Cardinality(DOMAIN passwords) = 2
        /\ \A idx \in 1..2 : pairs[idx].User \in DOMAIN passwords
        /\ Cardinality(DOMAIN privateKeys) = 2
        /\ \A idx \in 1..2 : CallAt("RotateUserKey", idx, FALSE)
        /\ Len(lastReg) = 2
        /\ \A k \in 1..2 :
              /\ lastReg[k].res = "nil"
              /\ lastReg[k].userIndex = 2 - k
              /\ OpCount(lastReg[k], "update") = 1
              /\ OpCount(lastReg[k], "search") = 2
              /\ lastReg[k].publicKey = PublicKeyOf(privateKeys[lastReg[k].username])
        /\ \A idx \in 1..2 : \E r \in 1..Len(rows) :
              /\ normalizeTunnelAddress(rows[r].TunnelAddress)
                    = normalizeTunnelAddress(config.ClientAddresses[idx])
              /\ rows[r].PubKey = PublicKeyOf(privateKeys[pairs[idx].User])
        /\ \A idx \in 1..2 : CallAt("RegisterPeerWithOPNsense", idx, FALSE)
        /\ Len(emails) = 2
        /\ \A idx \in 1..2 :
              /\ emails[idx].i = idx
              /\ emails[idx].to = activeEvents[idx].Email
              /\ emails[idx].username = pairs[idx].User
              /\ emails[idx].vmName = pairs[idx].VMs[1]
              /\ emails[idx].password = passwords[pairs[idx].User]
              /\ Len(emails[idx].attachment) = 1
              /\ emails[idx].attachment[1].PrivateKey = privateKeys[pairs[idx].User]
              /\ emails[idx].attachment[1].Address = config.ClientAddresses[idx]

\* the end-to-end case, finished
C18_Witness ==
    /\ EndToEndCase
    /\ result = "nil"
    /\ Len(emails) = 2
    /\ Len(lastReg) = 2

\* the instant a dateTime text denotes, 0 when the entry has none that parses
InstantOf(dt) ==
    IF dt = <<>> THEN 0
    ELSE IF dt[1].DateTime = OffsetText THEN 2
    ELSE IF \E t \in 1..Len(TimeTexts) : TimeTexts[t] = dt[1].DateTime
    THEN CHOOSE t \in 1..Len(TimeTexts) : TimeTexts[t] = dt[1].DateTime
    ELSE 0

\* a booking with a start and an end that parse and start <= now < end
Qualifies(e, now) ==
    /\ InstantOf(e.Start) # 0
    /\ InstantOf(e.End) # 0
    /\ InstantOf(e.Start) <= now
    /\ now < InstantOf(e.End)

\* the qualifying bookings of a call, in input order
Qualifying(c) == SelectSeq(c.events, LAMBDA e : Qualifies(e, c.now))

\* C19: FilterActiveEvents returns, in input order, exactly the bookings
\* whose start and end both parse and satisfy start <= now < end; bookings
\* with a nil start or end, without a time of day, or with a text that does
\* not parse are left out.
C19_FilterActiveWindow ==
    lastFilter # <<>> =>
        LET c == lastFilter[1]
            q == Qualifying(c)
        IN  /\ Len(c.out) = Len(q)
            /\ \A k \in 1..Len(q) : c.out[k].Summary = q[k].Summary
            /\ activeEvents = c.out

\* a call at instant 2 over a booking that ends at 2 and a booking that
\* starts at 2, which returned the second one only
C19_Witness ==
    /\ lastFilter # <<>>
    /\ lastFilter[1].now = 2
    /\ Len(lastFilter[1].events) = 2
    /\ lastFilter[1].events[1].End = At(2)
    /\ lastFilter[1].events[2].Start = At(2)
    /\ Len(lastFilter[1].out) = 1
    /\ lastFilter[1].out[1].Summary = lastFilter[1].events[2].Summary

\* the participants of a booking that are not the organizer and have an
\* address
Contacts(e) ==
    {k \in 1..Len(e.Attendees) :
        ~e.Attendees[k].Organizer /\ e.Attendees[k].Email # <<>>}

\* C20: the contact address of an active booking is that of its first
\* participant who is not the organizer and has an address; without such a
\* participant it is the address found in the summary; without either it
\* is empty and the booking is returned all the same.
C20_ContactAddress ==
    lastFilter # <<>> =>
        LET c == lastFilter[1]
            q == Qualifying(c)
        IN  /\ Len(c.out) = Len(q)
            /\ \A k \in 1..Len(q) :
                  IF Contacts(q[k]) # {}
                  THEN \E j \in Contacts(q[k]) :
                          /\ \A x \in Contacts(q[k]) : j <= x
                          /\ c.out[k].Email = q[k].Attendees[j].Email
                  ELSE c.out[k].Email = ExtractEmailFromSummary(q[k].Summary)

\* a call that returned one booking with the address of its summary, its
\* only participant being the organizer, and one booking with no address
C20_Witness ==
    /\ lastFilter # <<>>
    /\ Len(lastFilter[1].out) = 2
    /\ lastFilter[1].events[1].Attendees = <<Attendee(<<"o">>, TRUE)>>
    /\ lastFilter[1].out[1].Email = <<"b">>
    /\ lastFilter[1].out[2].Email = <<>>

\* the direct calls of one function
CallsOf(fn) == {k \in 1..Len(direct) : direct[k].fn = fn}

IsParen(c) == c \in {"(", ")"}

\* o and e are the positions of a parenthesis pair of s
ParenPair(s, o, e) == o < e /\ s[o] = "(" /\ s[e] = ")"

\* C21: ExtractEmailFromSummary returns the text enclosed by a parenthesis
\* pair of the summary, the innermost one when parentheses are nested
\* (the enclosed text holds no parenthesis; it is the first such pair), and
\* returns the empty text when the summary has no opening parenthesis
\* followed by a closing one or when the pair encloses nothing.
C21_ExtractInnermost ==
    \A k \in CallsOf("ExtractEmailFromSummary") :
        LET s == direct[k].in
            out == direct[k].out
            P == 1..Len(s)
        IN  IF \E o \in P, e \in P : ParenPair(s, o, e)
            THEN \E o \in P, e \in P :
                    /\ ParenPair(s, o, e)
                    /\ \A x \in (o + 1)..(e - 1) : ~IsParen(s[x])
                    /\ \A o2 \in P, e2 \in P : ParenPair(s, o2, e2) => e <= e2
                    /\ out = SubSeq(s, o + 1, e - 1)
                    /\ (e = o + 1 => out = <<>>)
            ELSE out = <<>>

\* "J (f (b))" gives "b"
C21_Witness ==
    \E k \in CallsOf("ExtractEmailFromSummary") :
        direct[k].in = NestedSummary /\ direct[k].out = <<"b">>
\* the machines of an inventory list
Machines(vms) == {vms[k] : k \in 1..Len(vms)}

\* the users of a mapping with at least one machine in the inventory
Selectable(c) ==
    {u \in DOMAIN c.in.mappings :
        \E j \in 1..Len(c.in.mappings[u]) :
            c.in.mappings[u][j] \in Machines(c.in.vmList)}

\* C22: selection from the configured mapping: for every inventory,
\* mapping and booking count, 0 included, the selected assignments are in
\* lexicographic order of user, every selected machine is in the inventory,
\* the number of assignments does not exceed the booking count, and the walk
\* stops as soon as that number reaches the booking count.
C22_SelectionWithinCount ==
    \A k \in CallsOf("SelectVMsToRestore") :
        LET c == direct[k]
            ps == c.out.pairs
            n == Cardinality(Selectable(c))
        IN  /\ \A j \in 1..Len(ps), l \in 1..Len(ps) :
                    j < l => StringLess(ps[j].User, ps[l].User)
            /\ \A j \in 1..Len(ps) : \A v \in 1..Len(ps[j].VMs) :
                    ps[j].VMs[v] \in Machines(c.in.vmList)
            /\ Len(ps) <= c.in.eventCount
            /\ Len(ps) = IF n < c.in.eventCount THEN n ELSE c.in.eventCount

\* the machines already selected by a list of pairs
Selected(ps) == UNION {Machines(ps[j].VMs) : j \in 1..Len(ps)}

\* the pairs of a selection that carry a user
Configured(ps) == SelectSeq(ps, LAMBDA p : p.User # "")

SelectionFns == {"SelectVMsToRestore", "SelectAllVMs"}

\* the inputs of a selection other than the iteration order of the map
SelectionInputs(c) ==
    <<c.in.vmList, c.in.mappings,
      IF c.fn = "SelectVMsToRestore" THEN c.in.eventCount ELSE -1>>

\* C24: two selections on the same inventory, the same mapping and the same
\* booking count return the same ordered list of assignments, whatever the
\* order in which each of them iterated the mapping.
C24_SelectionDeterministic ==
    \A fn \in SelectionFns : \A j \in CallsOf(fn), k \in CallsOf(fn) :
        SelectionInputs(direct[j]) = SelectionInputs(direct[k])
            => direct[j].out = direct[k].out

\* two selections that iterated a three-user mapping in opposite orders and
\* selected all three users
C24_Witness ==
    \E fn \in SelectionFns : \E j \in CallsOf(fn), k \in CallsOf(fn) :
        /\ direct[j].in.order = <<"carol", "bob", "alice">>
        /\ direct[k].in.order = <<"alice", "bob", "carol">>
        /\ fn = "SelectAllVMs"
        /\ Len(direct[j].out) = 3
        /\ direct[j].out = direct[k].out
\* the nodes of a forest in depth-first pre-order
RECURSIVE PreOrder(_)
PreOrder(tree) ==
    IF tree = <<>> THEN <<>>
    ELSE <<Head(tree)>> \o PreOrder(Head(tree).ChildSnapshotList) \o PreOrder(Tail(tree))

\* C25: for every snapshot forest and name, find-by-name returns a node
\* that carries the name whenever some node at any depth carries it (the
\* first one in depth-first pre-order, hence the only one when names are
\* unique), and returns none exactly when no node carries the name.
C25_FindByName ==
    \A k \in CallsOf("findSnapshotInTree") :
        LET pre == PreOrder(direct[k].in.tree)
            hits == {j \in 1..Len(pre) : pre[j].Name = direct[k].in.name}
            out == direct[k].out
        IN  /\ (out = <<>>) <=> (hits = {})
            /\ hits # {} =>
                  \E j \in hits : /\ \A h \in hits : j <= h
                                  /\ out = <<pre[j].Snapshot>>

\* the name is carried only by a node two levels down, which is returned
C25_Witness ==
    \E k \in CallsOf("findSnapshotInTree") :
        LET c == direct[k]
        IN  /\ Len(c.in.tree) = 1
            /\ c.in.name = "clean"
            /\ c.in.tree[1].Name = "base"
            /\ Len(c.in.tree[1].ChildSnapshotList) = 1
            /\ c.in.tree[1].ChildSnapshotList[1].Name = "base"
            /\ c.out = <<<<1, 1, 1>>>>

\* ref is reached from the forest by taking a root of greatest creation time
\* and then, again and again, a child of greatest creation time of the node
\* taken last, down to a node without children
RECURSIVE ReachedByLatest(_, _)
ReachedByLatest(tree, ref) ==
    \E k \in 1..Len(tree) :
        /\ \A j \in 1..Len(tree) : tree[j].CreateTime <= tree[k].CreateTime
        /\ IF tree[k].ChildSnapshotList = <<>> THEN ref = tree[k].Snapshot
           ELSE ReachedByLatest(tree[k].ChildSnapshotList, ref)

\* C26: find-latest returns the node reached by selecting the root of
\* greatest creation time and then descending into the child of greatest
\* creation time of the node selected last until a node without children is
\* reached, whether or not that node is the newest of the forest; it returns
\* none only for the empty forest.
C26_FindLatest ==
    \A k \in CallsOf("findLatestSnapshotInTree") :
        LET tree == direct[k].in.tree
            out == direct[k].out
        IN  IF tree = <<>> THEN out = <<>>
            ELSE /\ Len(out) = 1
                 /\ ReachedByLatest(tree, out[1])

\* the node returned is older than its parent and older than a sibling root
C26_Witness ==
    \E k \in CallsOf("findLatestSnapshotInTree") :
        LET tree == direct[k].in.tree
        IN  /\ Len(tree) = 2
            /\ tree[1].CreateTime = 3
            /\ tree[2].CreateTime = 2
            /\ Len(tree[1].ChildSnapshotList) = 1
            /\ tree[1].ChildSnapshotList[1].CreateTime = 1
            /\ direct[k].out = <<<<1, 1>>>>

RestoreOps(c, op) == {j \in 1..Len(c.out.ops) : c.out.ops[j].op = op}

\* the snapshot restoreVM has to revert to: found by name when a name other
\* than "" and "<latest>" is given, by find-latest otherwise
Resolved(c) ==
    IF c.in.snapshotName \in {"", "<latest>"}
    THEN findLatestSnapshotInTree(c.in.env.forest)
    ELSE findSnapshotInTree(c.in.env.forest, c.in.snapshotName)

\* C27: restoreVM is resolve-snapshot, revert, power-on: the snapshot is
\* resolved by name when a name is given and by find-latest otherwise; when
\* no snapshot is found the machine has an error and no revert is issued;
\* the power-on is issued only after a revert that completed successfully;
\* a failure of the revert or of the power-on is the one error returned.
C27_RestoreSequence ==
    \A k \in CallsOf("restoreVM") :
        LET c == direct[k]
            env == c.in.env
            reverts == RestoreOps(c, "RevertToSnapshot")
            powerOns == RestoreOps(c, "PowerOn")
        IN  /\ Cardinality(reverts) <= 1 /\ Cardinality(powerOns) <= 1
            /\ \A r \in reverts : /\ Resolved(c) = <<c.out.ops[r].ref>>
                                  /\ env.vm /\ env.props
            /\ Resolved(c) = <<>> => c.out.err # "nil" /\ reverts = {}
            /\ \A p \in powerOns : \E r \in reverts : r < p /\ env.revert = "ok"
            /\ (reverts # {} /\ env.revert = "ok") => powerOns # {}
            /\ (reverts # {} /\ env.revert # "ok") =>
                  c.out.err \in {"failed to revert", "revert task failed"}
            /\ (powerOns # {} /\ env.powerOn # "ok") =>
                  c.out.err \in {"failed to power on", "power on task failed"}
            /\ (c.out.err = "nil") <=>
                  (powerOns # {} /\ env.revert = "ok" /\ env.powerOn = "ok")

\* a revert to the named snapshot whose task fails: no power-on, one error
C27_Witness ==
    \E k \in CallsOf("restoreVM") :
        LET c == direct[k]
        IN  /\ c.in.snapshotName = "clean"
            /\ c.in.env.revert = "task fails"
            /\ c.out.ops = <<VMOp("RevertToSnapshot", <<1, 1>>, "task fails")>>
            /\ c.out.err = "revert task failed"
SuccessStatus(resp) == resp.StatusCode \in {200, 201}

\* the body is a JSON object with a non-empty "validations"
CarriesValidations(resp) ==
    /\ resp.Body.readable /\ resp.Body.json
    /\ "validations" \in DOMAIN resp.Body.fields
    /\ resp.Body.fields["validations"] # {}

\* the body is a JSON object whose "result" is neither "saved" nor empty
CarriesUnexpectedResult(resp) ==
    /\ resp.Body.readable /\ resp.Body.json
    /\ "result" \in DOMAIN resp.Body.fields
    /\ resp.Body.fields["result"] \notin {"saved", ""}

C29_RenderedProfile ==
    \A k \in CallsOf("GenerateClientConfig") :
        LET c == direct[k]
            cfg == c.in.config
            refused == \/ ~cfg.Enabled
                       \/ c.in.userIndex < 0
                       \/ c.in.userIndex >= Len(cfg.ClientAddresses)
                       \/ c.in.username \notin DOMAIN c.in.keys
        IN  /\ c.out.err <=> refused
            /\ refused => c.out.conf = <<>>
            /\ ~refused =>
                  /\ Len(c.out.conf) = 1
                  /\ LET p == c.out.conf[1]
                     IN  /\ p.PrivateKey = c.in.keys[c.in.username]
                         /\ p.Address = cfg.ClientAddresses[c.in.userIndex + 1]
                         /\ p.PublicKey = cfg.ServerPublicKey
                         /\ p.Endpoint = cfg.ServerEndpoint
                         /\ Len(p.MTU) = (IF cfg.MTU > 0 THEN 1 ELSE 0)
                         /\ \A j \in 1..Len(p.MTU) : p.MTU[j] = cfg.MTU
                         /\ Len(p.AllowedIPs) = (IF cfg.AllowedIPs # <<>> THEN 1 ELSE 0)
                         /\ \A j \in 1..Len(p.AllowedIPs) :
                               /\ Len(p.AllowedIPs[j]) = 2 * Len(cfg.AllowedIPs) - 1
                               /\ \A n \in 1..Len(cfg.AllowedIPs) :
                                     p.AllowedIPs[j][2 * n - 1] = cfg.AllowedIPs[n]
                         /\ Len(p.PersistentKeepalive) = (IF cfg.Keepalive > 0 THEN 1 ELSE 0)
                         /\ \A j \in 1..Len(p.PersistentKeepalive) :
                               p.PersistentKeepalive[j] = cfg.Keepalive

\* a profile with the keepalive line and without the MTU and networks lines
C29_Witness ==
    \E k \in CallsOf("GenerateClientConfig") :
        LET c == direct[k]
        IN  /\ c.in.config.MTU = 0
            /\ c.in.config.AllowedIPs = <<>>
            /\ c.in.userIndex = 1
            /\ ~c.out.err
            /\ c.out.conf[1].PrivateKey = "priv1"
            /\ c.out.conf[1].Address = Addr2Cidr
            /\ c.out.conf[1].MTU = <<>>
            /\ c.out.conf[1].AllowedIPs = <<>>
            /\ c.out.conf[1].PersistentKeepalive = <<25>>

\* the successful rotations for user u among the first n calls
Rotations(u, n) ==
    {k \in CallsOf("RotateUserKey") :
        k <= n /\ direct[k].in.username = u /\ ~direct[k].out.err}

Latest(S) == CHOOSE k \in S : \A j \in S : j <= k

\* the key map m holds, for every user, the key of the user's most recent
\* successful rotation among the first n calls and nothing else
HoldsLatestKeys(m, n) ==
    /\ DOMAIN m = {u \in Users : Rotations(u, n) # {}}
    /\ \A u \in DOMAIN m : m[u] = direct[Latest(Rotations(u, n))].out.priv

\* C30: after any sequence of RotateUserKey calls the key map holds for
\* each user exactly the private key returned by the user's most recent
\* successful rotation; a rotation for u leaves the other users' entries as
\* they were, a failed rotation leaves the map as it was, and a later
\* GenerateClientConfig for u renders the key of u's most recent rotation.
C30_LatestKeyPerUser ==
    harness = "keys" =>
        /\ HoldsLatestKeys(privateKeys, Len(direct))
        /\ \A k \in CallsOf("RotateUserKey") :
              LET c == direct[k]
              IN  /\ HoldsLatestKeys(c.out.keys, k)
                  /\ c.out.err => c.out.keys = c.in.keys
                  /\ \A v \in Users \ {c.in.username} :
                        /\ v \in DOMAIN c.out.keys <=> v \in DOMAIN c.in.keys
                        /\ v \in DOMAIN c.in.keys => c.out.keys[v] = c.in.keys[v]
        /\ \A k \in CallsOf("GenerateClientConfig") :
              LET c == direct[k]
                  rs == Rotations(c.in.username, k)
              IN  IF rs = {} THEN c.out.err
                  ELSE /\ ~c.out.err
                       /\ c.out.conf[1].PrivateKey = direct[Latest(rs)].out.priv

\* two rotations for alice with different keys, then a profile with the second
C30_Witness ==
    /\ harness = "keys"
    /\ Len(direct) = 3
    /\ direct[1].fn = "RotateUserKey" /\ direct[1].in.username = "alice"
    /\ direct[2].fn = "RotateUserKey" /\ direct[2].in.username = "alice"
    /\ ~direct[1].out.err /\ ~direct[2].out.err
    /\ direct[1].out.priv # direct[2].out.priv
    /\ direct[3].fn = "GenerateClientConfig" /\ direct[3].in.username = "alice"
    /\ direct[3].out.conf[1].PrivateKey = direct[2].out.priv
\* the registration calls of the run made for a user
RegistrationsFor(username) ==
    {k \in 1..Len(lastReg) : lastReg[k].username = username}

\* C31: a VPN profile is attached to a user's credentials email only if, in
\* the same run, the user's peer registration completed and passed the
\* read-after-write verification (whenever auto-registration is enabled): a
\* registration failure for a user implies an email without attachment.
C31_AttachmentOnlyIfRegistered ==
    Orch =>
        \A m \in 1..Len(emails) :
            (emails[m].attachment # <<>> /\ config.AutoRegisterPeers) =>
                \E k \in RegistrationsFor(emails[m].username) :
                    lastReg[k].res = "nil"
\* the conditions of SendPasswordEmailWithAttachment hold for assignment idx
EmailDue(idx) ==
    /\ hasEmail
    /\ pairs[idx].User \in DOMAIN passwords
    /\ idx <= Len(activeEvents)
    /\ activeEvents[idx].Email # <<>>

EmailsOf(idx) == {m \in 1..Len(emails) : emails[m].i = idx}

\* C32: when the VPN key rotation fails for a user neither the peer
\* registration nor the profile generation is attempted for that user; when
\* the key rotation or the profile generation fails, or no VPN service is
\* configured, the user's credentials email is still sent, without an
\* attachment; an email carries an attachment exactly when a profile was
\* generated for its user in this run, and then it is that profile.
C32_AttachmentIffGenerated ==
    Orch =>
        /\ \A idx \in 1..Len(pairs) :
              CallAt("RotateUserKey", idx, TRUE) =>
                  /\ Count("RegisterPeerWithOPNsense", idx) = 0
                  /\ Count("GenerateClientConfig", idx) = 0
        /\ EmailLoopDone =>
              \A idx \in 1..Len(pairs) :
                  (/\ EmailDue(idx)
                   /\ \/ ~hasWireGuard
                      \/ CallAt("RotateUserKey", idx, TRUE)
                      \/ CallAt("GenerateClientConfig", idx, TRUE)) =>
                      /\ EmailsOf(idx) # {}
                      /\ \A m \in EmailsOf(idx) : emails[m].attachment = <<>>
        /\ \A m \in 1..Len(emails) :
              /\ emails[m].attachment # <<>>
                    <=> CallAt("GenerateClientConfig", emails[m].i, FALSE)
              /\ emails[m].attachment # <<>> =>
                    emails[m].attachment = <<wireguardConfigs[emails[m].username]>>

\* the key rotation fails for the first assignment and succeeds for the
\* second: the first email has no attachment, the second has one
C32_Witness ==
    /\ Orch
    /\ pc = "returned"
    /\ CallAt("RotateUserKey", 1, TRUE)
    /\ CallAt("GenerateClientConfig", 2, FALSE)
    /\ Len(emails) = 2
    /\ emails[1].attachment = <<>>
    /\ emails[2].attachment # <<>>
\* the errors of the batch that report a failed machine restore
RestoreFailures == {e \in 1..Len(restoreErrors) : restoreErrors[e][1] = "failed to restore"}

\* C33: when a run ends in partial failure, the reported number of failed
\* machines is the number of machines whose restore failed and the reported
\* number of restored machines is the number of machines reverted and
\* powered on; a failed password rotation or host lookup is not counted as a
\* failed machine restore.
C33_ReportedCounts ==
    (Orch /\ result = ErrPartial) =>
        LET report == PartialFailureReport(restoreErrors, FlatVMs(pairs))
        IN  /\ report.Failed = Cardinality(RestoreFailures)
            /\ report.Restored = Len(StepsOf("restore")) - Cardinality(RestoreFailures)
\* the gateway rejected the mutation: transport error, non-success status,
\* validation errors or an unexpected result
MutationRejected(env) ==
    \/ env.do = "transport_error"
    \/ ~SuccessStatus(env.resp)
    \/ CarriesValidations(env.resp)
    \/ CarriesUnexpectedResult(env.resp)

\* C34: UpdatePeer and CreatePeer send the reconfigure request only after
\* the mutation response was validated as successful: a rejected mutation
\* is followed by no reconfigure request and returns an error; a failed
\* reconfigure request makes the operation return an error although the
\* mutation was saved.
C34_ApplyAfterValidation ==
    \A k \in CallsOf("PeerMutation") :
        LET c == direct[k]
            env == c.in.env
            sent == c.out.requests
            reconfigured == \E j \in 1..Len(sent) : sent[j] = "reconfigure"
        IN  /\ sent[1] = c.in.endpoint
            /\ reconfigured =>
                  /\ sent = <<c.in.endpoint, "reconfigure">>
                  /\ ~MutationRejected(env)
                  /\ env.resp.Body.readable
            /\ MutationRejected(env) => ~reconfigured /\ c.out.err # "nil"
            /\ (reconfigured /\ ~ApplyOk(env)) => c.out.err # "nil"
            /\ c.out.err = "nil" <=> (reconfigured /\ ApplyOk(env))

\* the mutation was saved and the reconfigure request failed
C34_Witness ==
    \E k \in CallsOf("PeerMutation") :
        LET c == direct[k]
        IN  /\ c.in.endpoint = "set_client"
            /\ c.in.env.resp.StatusCode = 200
            /\ "result" \in DOMAIN c.in.env.resp.Body.fields
            /\ c.in.env.resp.Body.fields["result"] = "saved"
            /\ c.in.env.apply = [do |-> "ok", StatusCode |-> 500]
            /\ c.out.requests = <<"set_client", "reconfigure">>
            /\ c.out.err = "reconfigure returned status"
\* the assignments of the run whose user is username
AssignmentsOf(username) == {k \in 1..Len(pairs) : pairs[k].User = username}

\* the key of assignment idx was rotated in the VPN loop
KeyRotatedAt(idx) == CallAt("RotateUserKey", idx, FALSE)

RotatedInRun(username) ==
    \E k \in 1..Len(FlatUsers(pairs)) :
        /\ FlatUsers(pairs)[k] = username
        /\ k \in {StepsOf("rotate")[j] : j \in 1..Len(StepsOf("rotate"))}
        /\ ~RotateFailedAt(k)
        /\ passwords[username] = NewPassword(k)

\* C36: every credentials email carries the data of one assignment i: the
\* username of assignment i, the password rotated for that username in the
\* run, the first machine of assignment i and the contact of booking i; at
\* most one email is sent per assignment, and no email carries the password
\* of a different user.
C36_OneAssignmentPerEmail ==
    Orch =>
        /\ \A m \in 1..Len(emails) :
              LET e == emails[m]
              IN  /\ e.i \in 1..Len(pairs)
                  /\ e.i <= Len(activeEvents)
                  /\ e.username = pairs[e.i].User
                  /\ e.username \in DOMAIN passwords
                  /\ e.password = passwords[e.username]
                  /\ RotatedInRun(e.username)
                  /\ e.vmName = pairs[e.i].VMs[1]
                  /\ e.to = activeEvents[e.i].Email
                  /\ \A u \in DOMAIN passwords :
                        u # e.username => e.password # passwords[u]
        /\ \A idx \in 1..Len(pairs) : Cardinality(EmailsOf(idx)) <= 1
        /\ Cardinality({k \in 1..Len(calls) :
                            calls[k].op = "SendPasswordEmailWithAttachment"})
              = Len(emails)

\* two assignments, two rotated passwords and two emails, each with its own
\* user's password
C36_Witness ==
    /\ Orch
    /\ pc = "returned"
    /\ Len(pairs) = 2
    /\ Cardinality(DOMAIN passwords) = 2
    /\ Len(emails) = 2
    /\ emails[1].i = 1 /\ emails[2].i = 2
    /\ emails[1].username # emails[2].username
    /\ emails[1].password # emails[2].password
    /\ emails[1].to # emails[2].to
\* no element of the sequence occurs at two positions
Distinct(seq) == \A j \in 1..Len(seq), k \in 1..Len(seq) : seq[j] = seq[k] => j = k

\* the positions of the mapping that name machine vm
Mentions(mappings, vm) ==
    {<<u, j>> \in (DOMAIN mappings) \X (1..3) :
        j <= Len(mappings[u]) /\ mappings[u][j] = vm}

Occurrences(seq, vm) == Cardinality({j \in 1..Len(seq) : seq[j] = vm})

CloseCalls == {k \in 1..Len(calls) : calls[k].op = "Close"}

\* the value Run returns on the exit path the run took, whatever Close did
ResultOfPath ==
    IF Failed("ListVMSnapshots") THEN ErrInventory
    ELSE IF Failed("ListEvents") THEN ErrCalendar
    ELSE IF ~Called("RestoreVMsWithPasswordRotation")
    THEN IF Len(activeEvents) > 0 THEN ErrNoVMs ELSE "nil"
    ELSE IF restoreErrors # <<>> THEN ErrPartial ELSE "nil"

\* C38: in every run in which the inventory fetch succeeds, Close is
\* invoked exactly once and after every other step, on every exit path
\* (booking-fetch error, no assignments, restore completed or partially
\* failed); Close is not invoked when the inventory fetch fails; an error
\* returned by Close does not change the result of Run.
C38_CloseOnceAtTheEnd ==
    Orch =>
        /\ Failed("ListVMSnapshots") => CloseCalls = {}
        /\ Cardinality(CloseCalls) <= 1
        /\ \A k \in CloseCalls : k = Len(calls) /\ pc = "returned"
        /\ pc = "returned" =>
              /\ CalledOk("ListVMSnapshots") => Cardinality(CloseCalls) = 1
              /\ result = ResultOfPath

\* a run that ends with a partial failure and a failing Close
C38_Witness ==
    /\ Orch
    /\ pc = "returned"
    /\ Called("RestoreVMsWithPasswordRotation")
    /\ restoreErrors # <<>>
    /\ calls[Len(calls)] = Call("Close", 0, TRUE)
    /\ result = ErrPartial
\* C39: VMwareService.Close logs the session out whenever a client exists,
\* and returns success without any action and without fault when no client
\* exists; after Close on a connected service the session is no longer
\* open.
C39_CloseLogsOut ==
    \A k \in CallsOf("Close") :
        LET c == direct[k]
        IN  /\ c.out.fault = "none"
            /\ c.in = <<>> => ~c.out.logout /\ ~c.out.err
            /\ c.in # <<>> =>
                  /\ c.out.logout
                  /\ c.out.client # <<>> => ~c.out.client[1]

\* the text before the first "/" of an address, or all of it
BeforeSlash(addr) ==
    IF \E j \in 1..Len(addr) : addr[j] = "/"
    THEN SubSeq(addr, 1, (CHOOSE j \in 1..Len(addr) :
                            addr[j] = "/" /\ \A h \in 1..(j - 1) : addr[h] # "/") - 1)
    ELSE addr

\* an address without its CIDR suffix and without surrounding whitespace
Bare(addr) == TrimSpace(BeforeSlash(addr))

HasSlash(text) == \E j \in 1..Len(text) : text[j] = "/"

LeadingSpace(text) == text # <<>> /\ IsSpace(text[1])

TrailingSpace(text) == text # <<>> /\ IsSpace(text[Len(text)])

\* the first row whose bare address is the bare target, <<>> for none
FirstBareMatch(rs, tunnelAddress) ==
    LET hits == {j \in 1..Len(rs) : Bare(rs[j].TunnelAddress) = Bare(tunnelAddress)}
    IN  IF hits = {} THEN <<>>
        ELSE <<rs[CHOOSE j \in hits : \A h \in hits : j <= h]>>

\* C40: normalizeTunnelAddress is idempotent and its result has no
\* "/" and no leading or trailing whitespace, so that SearchPeerByTunnelAddress
\* returns the first row that equals the target up to a CIDR suffix and
\* surrounding whitespace, and none when no row does.
C40_NormalForm ==
    /\ \A k \in CallsOf("normalizeTunnelAddress") :
          LET c == direct[k]
          IN  /\ normalizeTunnelAddress(c.out) = c.out
              /\ ~HasSlash(c.out)
              /\ ~LeadingSpace(c.out)
              /\ ~TrailingSpace(c.out)
    /\ \A k \in CallsOf("SearchPeerByTunnelAddress") :
          LET c == direct[k]
          IN  c.in.fault = "ok" =>
                c.out.peer = FirstBareMatch(c.in.rows, c.in.tunnelAddress)
====
